---- MODULE Spec2Model ----
(***************************************************************************)
(* Model of the provider adapters of the OpenAI-compatible gateway in      *)
(* sdk-interface/app: the streaming translators and the response           *)
(* normalizers of AnthropicClient, GeminiClient and GrokClient.            *)
(*                                                                         *)
(* Python values are modelled as follows: None is the marker None, a dict  *)
(* or a pydantic object is a function from its keys (hasattr(o, "k") is    *)
(* "k" \in DOMAIN o), a list is a sequence, an identifier built by an     *)
(* f-string is the tuple of its pieces, and a result of type "T | None" is *)
(* the sequence <<>> (for None) or <<t>>.                                  *)
(***************************************************************************)
EXTENDS Integers, Sequences, FiniteSets, TLC

(***************************************************************************)
(* Bounds of the model.                                                    *)
(***************************************************************************)
MaxEvents == 3      \* provider events consumed by one stream
MaxTicks == 1       \* milliseconds the gateway clock advances in one run
MaxTokens == 1      \* largest token count a provider reports for one side

ClockStart == 1999  \* gateway time (ms) when the request arrives
MsPerSecond == 1000 \* int(time.time() * 1000) against int(time.time())

None == "<None>"

\* the list comprehension [Op(x) for x in s]
MapSeq(s, Op(_)) == [i \in 1..Len(s) |-> Op(s[i])]

Adapters == {"anthropic", "gemini", "grok"}
Models == {"claude-x", "grok-2-latest"}
Texts == {"", "A", "B"}

VARIABLES
    available,      \* adapter -> self.available (Anthropic has no such flag)
    clock,          \* time.time() in milliseconds
    adapter,        \* the client whose generator is running, None when idle
    model,          \* request.model
    phase,          \* position of the generator
    completion_id,  \* local completion_id of create_stream_completion
    created,        \* local created of create_stream_completion
    consumed,       \* provider events received so far, in order
    out,            \* items yielded so far, in order
    raised,         \* the exception that left the call, None if none
    response,       \* what the provider answered to create_completion
    completion,     \* what create_completion returned
    request,        \* the ChatCompletionRequest handed to the adapter
    call,           \* the keyword arguments of the provider call
    live,           \* what the provider's model API answered
    answer,         \* what list_models or get_model returned
    _model_cache,   \* main.py: the ids known to the gateway, <<>> when None
    handlers,       \* the create_chat_completion calls in progress
    process,        \* the start of the process: environment and progress
    cancel          \* the cancellation of the stream's consumer, <<>> if none

\* the variables of the request builders and of the model registry
others == <<request, call, live, answer>>

\* the variables of the gateway application
server == <<_model_cache, handlers, process, cancel>>

vars == <<available, clock, adapter, model, phase, completion_id, created,
          consumed, out, raised, response, completion, others, server>>

(***************************************************************************)
(* models.py                                                               *)
(***************************************************************************)
FinishReasons == {"stop", "length", "content_filter"}

\* ChatCompletionStreamChoice: delta is dict[str, str], finish_reason is one
\* of the three literals or None; pydantic rejects anything else.
ValidStreamChoice(delta, finish_reason) ==
    /\ \A k \in DOMAIN delta : delta[k] # None
    /\ finish_reason \in FinishReasons \cup {None}

ChatCompletionStreamChoice(index, delta, finish_reason) ==
    [index |-> index, delta |-> delta, finish_reason |-> finish_reason]

ChatCompletionChunk(id, cr, m, choice) ==
    [id |-> id, object |-> "chat.completion.chunk", created |-> cr,
     model |-> m, choices |-> <<choice>>]

EmptyDelta == [k \in {} |-> None]

\* model_dump_json(exclude_none): with exclude_none the fields whose value is
\* None are left out of the serialized object; finish_reason is the only
\* field of a validated chunk that can be None.
ExcludeNone(choice) ==
    IF choice.finish_reason = None
    THEN [index |-> choice.index, delta |-> choice.delta]
    ELSE choice

ModelDumpJson(chunk, exclude_none) ==
    IF exclude_none
    THEN [chunk EXCEPT !.choices = <<ExcludeNone(chunk.choices[1])>>]
    ELSE chunk

\* f"data: {json}\n\n" and the literal "data: [DONE]\n\n"
SseData(json) == [kind |-> "chunk", data |-> json]
SseDone == [kind |-> "done"]

(***************************************************************************)
(* Provider event alphabets.                                               *)
(***************************************************************************)
TextDelta(t) == [type |-> "content_block_delta",
                 delta |-> [type |-> "text_delta", text |-> t]]

AnthropicEvents ==
    {[type |-> ty] : ty \in {"message_start", "content_block_start",
                             "message_delta", "message_stop"}}
    \cup {TextDelta(t) : t \in Texts}
    \cup {[type |-> "content_block_delta",
           delta |-> [type |-> "input_json_delta", partial_json |-> "{"]]}
    \cup {[type |-> "text", text |-> "A"]}

\* A Gemini response chunk holds zero or one text part.
GeminiChunks == {[parts |-> <<>>]} \cup {[parts |-> <<t>>] : t \in Texts}

UpstreamMeta ==
    {[id |-> <<"xai-", 1>>, created |-> 7, model |-> "grok-2-1212"],
     [id |-> <<"xai-", 2>>, created |-> 8, model |-> "grok-2-1212"]}

UpstreamChoices ==
    [index : {0},
     delta : [role : {None, "assistant"}, content : {None, "", "A"}],
     finish_reason : {None, "stop", "length", "tool_calls"}]

GrokChunks ==
    {[id |-> u.id, created |-> u.created, model |-> u.model, choices |-> cs] :
        u \in UpstreamMeta, cs \in {<<>>} \cup {<<c>> : c \in UpstreamChoices}}

(***************************************************************************)
(* anthropic_client.py                                                     *)
(***************************************************************************)
\* variant: message_delta (which carries the stop_reason) is taken for the
\* terminal event as well
_convert_stream_event_stop_on_delta(event, id, cr, m) ==
    IF event.type = "content_block_delta"
    THEN IF "text" \in DOMAIN event.delta
         THEN <<ChatCompletionChunk(id, cr, m,
                    ChatCompletionStreamChoice(0,
                        [role |-> "assistant", content |-> event.delta.text],
                        None))>>
         ELSE <<>>
    ELSE IF event.type \in {"message_stop", "message_delta"}
    THEN <<ChatCompletionChunk(id, cr, m,
               ChatCompletionStreamChoice(0, EmptyDelta, "stop"))>>
    ELSE <<>>

\* variant: a text delta is converted only when its text is not empty
_convert_stream_event_skip_empty(event, id, cr, m) ==
    IF event.type = "content_block_delta"
    THEN IF "text" \in DOMAIN event.delta /\ event.delta.text # ""
         THEN <<ChatCompletionChunk(id, cr, m,
                    ChatCompletionStreamChoice(0,
                        [role |-> "assistant", content |-> event.delta.text],
                        None))>>
         ELSE <<>>
    ELSE IF event.type = "message_stop"
    THEN <<ChatCompletionChunk(id, cr, m,
               ChatCompletionStreamChoice(0, EmptyDelta, "stop"))>>
    ELSE <<>>

\* variant: the terminal chunk is given an id of its own
_convert_stream_event_new_id(event, id, cr, m) ==
    IF event.type = "content_block_delta"
    THEN IF "text" \in DOMAIN event.delta
         THEN <<ChatCompletionChunk(id, cr, m,
                    ChatCompletionStreamChoice(0,
                        [role |-> "assistant", content |-> event.delta.text],
                        None))>>
         ELSE <<>>
    ELSE IF event.type = "message_stop"
    THEN <<ChatCompletionChunk(<<"chatcmpl-", cr>>, cr, m,
               ChatCompletionStreamChoice(0, EmptyDelta, "stop"))>>
    ELSE <<>>

\* variant: message_start opens the stream with a role-only chunk
_convert_stream_event_role_first(event, id, cr, m) ==
    IF event.type = "content_block_delta"
    THEN IF "text" \in DOMAIN event.delta
         THEN <<ChatCompletionChunk(id, cr, m,
                    ChatCompletionStreamChoice(0,
                        [role |-> "assistant", content |-> event.delta.text],
                        None))>>
         ELSE <<>>
    ELSE IF event.type = "message_stop"
    THEN <<ChatCompletionChunk(id, cr, m,
               ChatCompletionStreamChoice(0, EmptyDelta, "stop"))>>
    ELSE IF event.type = "message_start"
    THEN <<ChatCompletionChunk(id, cr, m,
               ChatCompletionStreamChoice(0, [role |-> "assistant"], None))>>
    ELSE <<>>

\* variant: the content chunk leaves the role out of its delta
_convert_stream_event_no_role(event, id, cr, m) ==
    IF event.type = "content_block_delta"
    THEN IF "text" \in DOMAIN event.delta
         THEN <<ChatCompletionChunk(id, cr, m,
                    ChatCompletionStreamChoice(0,
                        [content |-> event.delta.text], None))>>
         ELSE <<>>
    ELSE IF event.type = "message_stop"
    THEN <<ChatCompletionChunk(id, cr, m,
               ChatCompletionStreamChoice(0, EmptyDelta, "stop"))>>
    ELSE <<>>

\* AnthropicClient._convert_stream_event
_convert_stream_event(event, id, cr, m) ==
    IF event.type = "content_block_delta"
    THEN IF "text" \in DOMAIN event.delta
         THEN <<ChatCompletionChunk(id, cr, m,
                    ChatCompletionStreamChoice(0,
                        [role |-> "assistant", content |-> event.delta.text],
                        None))>>
         ELSE <<>>
    ELSE IF event.type = "message_stop"
    THEN <<ChatCompletionChunk(id, cr, m,
               ChatCompletionStreamChoice(0, EmptyDelta, "stop"))>>
    ELSE <<>>

(***************************************************************************)
(* The streaming generators.  One action is one resumption of the          *)
(* generator, up to its next yield, its return or the exception it raises. *)
(***************************************************************************)
\* the optional credentials: all configured, or one of them absent
Availabilities ==
    {[gemini |-> TRUE, grok |-> TRUE], [gemini |-> FALSE, grok |-> TRUE],
     [gemini |-> TRUE, grok |-> FALSE]}

\* the create_chat_completion calls that the event loop may interleave,
\* numbered in the order of their arrival
Handlers == {1, 2}

\* a call that has not been received: its locals and its response
IdleHandler ==
    [pc |-> "idle", model |-> None, stream |-> FALSE,
     populated |-> FALSE, forced |-> FALSE,
     listed |-> [anthropic |-> 0, gemini |-> 0, grok |-> 0],
     anthropic_models |-> {}, gemini_models |-> {},
     available_models |-> <<>>,
     client |-> None, calls |-> 0, status |-> 0, detail |-> None]

StreamInit ==
    /\ available \in Availabilities
    /\ clock = ClockStart
    /\ adapter = None
    /\ model = None
    /\ phase = "idle"
    /\ completion_id = None
    /\ created = None
    /\ consumed = <<>>
    /\ out = <<>>
    /\ raised = None
    /\ response = <<>>
    /\ completion = <<>>
    /\ request = <<>>
    /\ call = <<>>
    /\ live = <<>>
    /\ answer = <<>>
    /\ _model_cache = <<>>
    /\ handlers = [h \in Handlers |-> IdleHandler]
    /\ process = <<>>
    /\ cancel = <<>>

\* time passes before the call and while the generator is suspended
Tick ==
    /\ phase \in {"idle", "open", "finished"}
    /\ clock < ClockStart + MaxTicks
    /\ clock' = clock + 1
    /\ UNCHANGED <<available, adapter, model, phase, completion_id, created,
                   consumed, out, raised, response, completion, others, server>>

\* completion_id = f"chatcmpl-{int(time.time() * 1000)}"
StreamCompletionId(now) == <<"chatcmpl-", now>>
\* created = int(time.time())
StreamCreated(now) == now \div MsPerSecond

\* First resumption: the code of create_stream_completion before the loop.
StartStream(a, m) ==
    /\ phase = "idle"
    /\ adapter' = a
    /\ model' = m
    /\ IF a # "anthropic" /\ ~available[a]
       THEN /\ phase' = "aborted"
            /\ raised' = "ValueError"
            /\ UNCHANGED <<completion_id, created>>
       ELSE /\ phase' = "open"
            /\ raised' = None
            /\ IF a = "grok"
               THEN UNCHANGED <<completion_id, created>>
               ELSE /\ completion_id' = StreamCompletionId(clock)
                    /\ created' = StreamCreated(clock)
    /\ UNCHANGED <<available, clock, consumed, out, response, completion, others, server>>

\* async for event in stream: ... (anthropic_client.py)
AnthropicEvent(event) ==
    /\ phase = "open" /\ adapter = "anthropic"
    /\ Len(consumed) < MaxEvents
    /\ consumed' = Append(consumed, event)
    /\ LET chunk == _convert_stream_event(event, completion_id, created, model)
       IN  out' = IF chunk # <<>>
                  THEN Append(out, SseData(ModelDumpJson(chunk[1], FALSE)))
                  ELSE out
    /\ UNCHANGED <<available, clock, adapter, model, phase, completion_id,
                   created, raised, response, completion, others, server>>

\* chunk.text of the Gemini SDK: raises ValueError when the chunk has no part
GeminiText(chunk) == IF chunk.parts = <<>> THEN None ELSE chunk.parts[1]

\* async for chunk in response_stream: ... (gemini_client.py)
GeminiChunk(chunk) ==
    /\ phase = "open" /\ adapter = "gemini"
    /\ Len(consumed) < MaxEvents
    /\ consumed' = Append(consumed, chunk)
    /\ LET content_delta == GeminiText(chunk)
           response_chunk ==
               ChatCompletionChunk(completion_id, created, model,
                   ChatCompletionStreamChoice(0,
                       [role |-> "assistant", content |-> content_delta],
                       None))
       IN  IF content_delta = None
           THEN /\ phase' = "aborted"
                /\ raised' = "ValueError"
                /\ out' = out
           ELSE /\ out' = Append(out,
                              SseData(ModelDumpJson(response_chunk, FALSE)))
                /\ UNCHANGED <<phase, raised>>
    /\ UNCHANGED <<available, clock, adapter, model, completion_id, created,
                   response, completion, others, server>>

\* the delta built at grok_client.py 235-238
GrokDelta(delta) ==
    [role |-> IF "role" \in DOMAIN delta /\ delta.role \notin {None, ""}
              THEN delta.role ELSE None,
     content |-> IF "content" \in DOMAIN delta
                    /\ delta.content \notin {None, ""}
                 THEN delta.content ELSE None]

\* grok_client.py 244-248: the keys whose value is None are deleted
FilterNone(delta) == [k \in {j \in DOMAIN delta : delta[j] # None} |-> delta[k]]

\* async for chunk in stream: ... (grok_client.py)
GrokChunk(chunk) ==
    /\ phase = "open" /\ adapter = "grok"
    /\ Len(consumed) < MaxEvents
    /\ consumed' = Append(consumed, chunk)
    /\ IF chunk.choices = <<>>
       THEN UNCHANGED <<phase, raised, out>>
       ELSE LET delta == GrokDelta(chunk.choices[1].delta)
                finish_reason == chunk.choices[1].finish_reason
                response_chunk ==
                    ChatCompletionChunk(chunk.id, chunk.created, chunk.model,
                        ChatCompletionStreamChoice(chunk.choices[1].index,
                            delta, finish_reason))
            IN  IF ~ValidStreamChoice(delta, finish_reason)
                THEN /\ phase' = "aborted"
                     /\ raised' = "ValidationError"
                     /\ out' = out
                ELSE /\ out' = Append(out,
                                   SseData(ModelDumpJson(
                                       [response_chunk EXCEPT
                                           !.choices[1].delta = FilterNone(@)],
                                       TRUE)))
                     /\ UNCHANGED <<phase, raised>>
    /\ UNCHANGED <<available, clock, adapter, model, completion_id, created,
                   response, completion, others, server>>

\* variant: the final chunk of Gemini repeats the role in its delta
StreamEndRoleDelta ==
    /\ phase = "open"
    /\ IF adapter = "gemini"
       THEN /\ out' = Append(out, SseData(ModelDumpJson(
                          ChatCompletionChunk(completion_id, created, model,
                              ChatCompletionStreamChoice(0,
                                  [role |-> "assistant"], "stop")),
                          FALSE)))
            /\ phase' = "finished"
       ELSE /\ out' = Append(out, SseDone)
            /\ phase' = "done"
    /\ UNCHANGED <<available, clock, adapter, model, completion_id, created,
                   consumed, raised, response, completion, others, server>>

\* variant: the sentinel is yielded inside the loop, which goes on
StreamEndInsideLoop ==
    /\ phase = "open"
    /\ IF adapter = "gemini"
       THEN /\ out' = Append(out, SseData(ModelDumpJson(
                          ChatCompletionChunk(completion_id, created, model,
                              ChatCompletionStreamChoice(0, EmptyDelta, "stop")),
                          FALSE)))
            /\ phase' = "finished"
       ELSE /\ out' = Append(out, SseDone)
            /\ phase' = "open"
    /\ UNCHANGED <<available, clock, adapter, model, completion_id, created,
                   consumed, raised, response, completion, others, server>>

\* The provider ends its event sequence: the loop is left.
StreamEnd ==
    /\ phase = "open"
    /\ IF adapter = "gemini"
       THEN /\ out' = Append(out, SseData(ModelDumpJson(
                          ChatCompletionChunk(completion_id, created, model,
                              ChatCompletionStreamChoice(0, EmptyDelta, "stop")),
                          FALSE)))
            /\ phase' = "finished"
       ELSE /\ out' = Append(out, SseDone)
            /\ phase' = "done"
    /\ UNCHANGED <<available, clock, adapter, model, completion_id, created,
                   consumed, raised, response, completion, others, server>>

\* gemini_client.py 335: the sentinel after the final chunk
GeminiDone ==
    /\ phase = "finished"
    /\ out' = Append(out, SseDone)
    /\ phase' = "done"
    /\ UNCHANGED <<available, clock, adapter, model, completion_id, created,
                   consumed, raised, response, completion, others, server>>

\* variant: the error is swallowed and the stream is closed as if finished
TransportErrorSwallowed ==
    /\ phase = "open"
    /\ phase' = "aborted"
    /\ raised' = "APIError"
    /\ out' = Append(out, SseDone)
    /\ UNCHANGED <<available, clock, adapter, model, completion_id, created,
                   consumed, response, completion, others, server>>

\* The provider call or the wait for the next event raises.
TransportError ==
    /\ phase = "open"
    /\ phase' = "aborted"
    /\ raised' = "APIError"
    /\ UNCHANGED <<available, clock, adapter, model, completion_id, created,
                   consumed, out, response, completion, others, server>>

StreamNext ==
    \/ Tick
    \/ \E a \in Adapters, m \in Models : StartStream(a, m)
    \/ \E e \in AnthropicEvents : AnthropicEvent(e)
    \/ \E c \in GeminiChunks : GeminiChunk(c)
    \/ \E c \in GrokChunks : GrokChunk(c)
    \/ StreamEnd
    \/ GeminiDone
    \/ TransportError

StreamSpec == StreamInit /\ [][StreamNext]_vars

(***************************************************************************)
(* create_completion: the response normalizers.  A Python str assembled    *)
(* from pieces is the sequence of its pieces ("" is <<>>), and an optional *)
(* attribute of a provider response is <<>> when absent and <<v>> when set.*)
(***************************************************************************)
Tokens == 0..MaxTokens

\* models.py: Usage, ChatMessage, ChatCompletionChoice, ChatCompletionResponse
Usage(prompt_tokens, completion_tokens, total_tokens) ==
    [prompt_tokens |-> prompt_tokens, completion_tokens |-> completion_tokens,
     total_tokens |-> total_tokens]

ChatMessage(role, content) == [role |-> role, content |-> content]

\* a choice that numbers from 1
ChatCompletionChoiceFromOne(index, message, finish_reason) ==
    [index |-> index + 1, message |-> message,
     finish_reason |-> finish_reason]

ChatCompletionChoice(index, message, finish_reason) ==
    [index |-> index, message |-> message, finish_reason |-> finish_reason]

\* what pydantic accepts for ChatMessage and ChatCompletionChoice
ValidChoice(role, content, finish_reason) ==
    /\ role \in {"system", "user", "assistant"}
    /\ content # None
    /\ finish_reason \in FinishReasons \cup {None}

ChatCompletionResponse(id, cr, m, choice, usage) ==
    [id |-> id, object |-> "chat.completion", created |-> cr, model |-> m,
     choices |-> <<choice>>, usage |-> usage]

Returns(c) == [raised |-> None, completion |-> <<c>>]
Raises(exc) == [raised |-> exc, completion |-> <<>>]

\* Provider responses.
TextBlock(t) == [type |-> "text", text |-> t]
ToolUseBlock == [type |-> "tool_use", name |-> "f"]

AnthropicResponses ==
    [id : {"msg_1"},
     content : {<<>>, <<TextBlock("Hi")>>, <<TextBlock("A"), TextBlock("B")>>,
                <<TextBlock("Hi"), ToolUseBlock>>},
     stop_reason : {None, "end_turn", "max_tokens", "stop_sequence",
                    "tool_use", "refusal"},
     usage : [input_tokens : Tokens, output_tokens : Tokens]]

\* finish_reason.value of a Gemini candidate: 0 UNSPECIFIED, 1 STOP,
\* 2 MAX_TOKENS, 3 SAFETY, 4 RECITATION, 5 OTHER
GeminiFinishValues == 0..5

\* total_token_count is the provider's own figure: it also counts the tokens
\* that are neither prompt nor candidate tokens
GeminiUsages ==
    {u \in [prompt_token_count : Tokens, candidates_token_count : Tokens,
            total_token_count : 0..(2 * MaxTokens + 1)] :
        u.total_token_count >= u.prompt_token_count + u.candidates_token_count}

GeminiCandidate(v) == [finish_reason |-> [value |-> v]]

\* no candidate, one candidate, or one candidate followed by a second one
GeminiResponses ==
    [text : {<<>>, <<"Hi">>},
     candidates : {<<>>}
                  \cup {<<GeminiCandidate(v)>> : v \in GeminiFinishValues}
                  \cup {<<GeminiCandidate(v), GeminiCandidate(2)>> :
                           v \in GeminiFinishValues},
     usage_metadata : {<<>>} \cup {<<u>> : u \in GeminiUsages}]

GrokUsages ==
    {u \in [prompt_tokens : Tokens, completion_tokens : Tokens,
            total_tokens : 0..(2 * MaxTokens + 1)] :
        u.total_tokens >= u.prompt_tokens + u.completion_tokens}

GrokChoices ==
    [index : {0, 1},
     message : [role : {"assistant", "user"}, content : {None, "Hi"}],
     finish_reason : {None, "stop", "length", "content_filter", "tool_calls"}]

GrokSecondChoice ==
    [index |-> 1, message |-> [role |-> "assistant", content |-> "Yo"],
     finish_reason |-> "length"]

\* no choice, one choice, or one choice followed by a second one
GrokResponses ==
    [id : {<<"xai-", 1>>}, created : {7}, model : {"grok-2-1212"},
     choices : {<<>>} \cup {<<c>> : c \in GrokChoices}
                      \cup {<<c, GrokSecondChoice>> : c \in GrokChoices},
     usage : {<<>>} \cup {<<u>> : u \in GrokUsages}]

RECURSIVE JoinSpace(_)
\* " ".join(pieces)
JoinSpace(pieces) ==
    IF Len(pieces) = 0 THEN <<>>
    ELSE IF Len(pieces) = 1 THEN <<pieces[1]>>
    ELSE <<pieces[1], " ">> \o JoinSpace(Tail(pieces))

HasText(block) == "text" \in DOMAIN block
BlockText(block) == block.text

\* anthropic_client.py 207-213
AnthropicFinishReason(stop_reason) ==
    LET stop_reason_str == IF stop_reason # None THEN stop_reason
                           ELSE "end_turn"
    IN  IF stop_reason_str = "max_tokens" THEN "length"
        ELSE IF stop_reason_str \in {"end_turn", "stop_sequence"} THEN "stop"
        ELSE "stop"

\* anthropic_client.py 226-230
AnthropicUsage(usage) ==
    Usage(usage.input_tokens, usage.output_tokens,
          usage.input_tokens + usage.output_tokens)

\* a normalizer that gives the id another prefix
AnthropicCreateCompletionProviderId(m, resp, now) ==
    LET content == IF resp.content # <<>>
                   THEN JoinSpace(MapSeq(SelectSeq(resp.content, HasText),
                                         BlockText))
                   ELSE <<>>
    IN  Returns(ChatCompletionResponse(
                    <<"cmpl-", resp.id>>, now \div MsPerSecond, m,
                    ChatCompletionChoice(0, ChatMessage("assistant", content),
                        AnthropicFinishReason(resp.stop_reason)),
                    AnthropicUsage(resp.usage)))

\* AnthropicClient.create_completion, from the provider's response on
AnthropicCreateCompletion(m, resp, now) ==
    LET content == IF resp.content # <<>>
                   THEN JoinSpace(MapSeq(SelectSeq(resp.content, HasText),
                                         BlockText))
                   ELSE <<>>
    IN  Returns(ChatCompletionResponse(
                    <<"chatcmpl-", resp.id>>, now \div MsPerSecond, m,
                    ChatCompletionChoice(0, ChatMessage("assistant", content),
                        AnthropicFinishReason(resp.stop_reason)),
                    AnthropicUsage(resp.usage)))

\* gemini_client.py 227-237
GeminiFinishReason(candidates) ==
    IF candidates # <<>> /\ candidates[1].finish_reason.value # 0
    THEN CASE candidates[1].finish_reason.value = 1 -> "stop"
           [] candidates[1].finish_reason.value = 2 -> "length"
           [] candidates[1].finish_reason.value = 3 -> "content_filter"
           [] candidates[1].finish_reason.value = 4 -> "content_filter"
           [] OTHER -> "stop"
    ELSE "stop"

\* gemini_client.py 239-250
GeminiUsage(usage_metadata) ==
    IF usage_metadata # <<>>
    THEN Usage(usage_metadata[1].prompt_token_count,
               usage_metadata[1].candidates_token_count,
               usage_metadata[1].total_token_count)
    ELSE Usage(0, 0, 0)

\* GeminiClient.create_completion, from the provider's response on
GeminiCreateCompletion(m, resp, now) ==
    IF resp.text = <<>>
    THEN Raises("ValueError")
    ELSE Returns(ChatCompletionResponse(
                     <<"chatcmpl-", now \div MsPerSecond>>,
                     now \div MsPerSecond, m,
                     ChatCompletionChoice(0,
                         ChatMessage("assistant", resp.text),
                         GeminiFinishReason(resp.candidates)),
                     GeminiUsage(resp.usage_metadata)))

\* grok_client.py 174-178: response.usage is read without a test for None
GrokUsage(usage) ==
    Usage(usage[1].prompt_tokens, usage[1].completion_tokens,
          usage[1].total_tokens)

\* GrokClient.create_completion, from the provider's response on; the
\* content of the provider's message is a str or None
GrokCreateCompletion(m, resp, now) ==
    IF resp.choices = <<>>
    THEN Raises("IndexError")
    ELSE LET choice == resp.choices[1] IN
         IF ~ValidChoice(choice.message.role, choice.message.content,
                         choice.finish_reason)
         THEN Raises("ValidationError")
         ELSE IF resp.usage = <<>>
         THEN Raises("AttributeError")
         ELSE Returns(ChatCompletionResponse(
                          resp.id, resp.created, resp.model,
                          ChatCompletionChoice(choice.index,
                              ChatMessage(choice.message.role,
                                          <<choice.message.content>>),
                              choice.finish_reason),
                          GrokUsage(resp.usage)))

ProviderResponses(a) ==
    CASE a = "anthropic" -> AnthropicResponses
      [] a = "gemini" -> GeminiResponses
      [] a = "grok" -> GrokResponses

Normalized(a, m, resp, now) ==
    CASE a = "anthropic" -> AnthropicCreateCompletion(m, resp, now)
      [] a = "gemini" -> GeminiCreateCompletion(m, resp, now)
      [] a = "grok" -> GrokCreateCompletion(m, resp, now)

\* create_completion of adapter a, the provider answering resp
CreateCompletion(a, m, resp) ==
    /\ phase = "idle"
    /\ adapter' = a
    /\ model' = m
    /\ IF a # "anthropic" /\ ~available[a]
       THEN /\ raised' = "ValueError"
            /\ phase' = "failed"
            /\ UNCHANGED <<response, completion, others>>
       ELSE LET result == Normalized(a, m, resp, clock) IN
            /\ response' = <<resp>>
            /\ raised' = result.raised
            /\ completion' = result.completion
            /\ phase' = IF result.completion # <<>> THEN "returned"
                        ELSE "failed"
    /\ UNCHANGED <<available, clock, completion_id, created, consumed, out,
                   others, server>>

\* the provider call of create_completion raises
CompletionCallFails(a, m) ==
    /\ phase = "idle"
    /\ adapter' = a
    /\ model' = m
    /\ raised' = IF a # "anthropic" /\ ~available[a] THEN "ValueError"
                 ELSE "APIError"
    /\ phase' = "failed"
    /\ UNCHANGED <<available, clock, completion_id, created, consumed, out,
                   response, completion, others, server>>

CompletionNext ==
    \/ Tick
    \/ \E a \in Adapters, m \in Models :
           \E resp \in ProviderResponses(a) : CreateCompletion(a, m, resp)
    \/ \E a \in Adapters, m \in Models : CompletionCallFails(a, m)

CompletionSpec == StreamInit /\ [][CompletionNext]_vars

(***************************************************************************)
(* create_completion and create_stream_completion up to the provider call: *)
(* the message converters and the request builders.  The normalizers above *)
(* read nothing of the request but its model.  An optional field of the    *)
(* request is <<>> when None and <<v>> when set; a stop value carries its  *)
(* Python type, str or list.                                               *)
(***************************************************************************)
MaxMessages == 3
DefaultMaxTokens == 4096

Str(s) == [type |-> "str", value |-> s]
List(l) == [type |-> "list", value |-> l]
\* bool(v) of a str or a list
Truthy(v) == IF v.type = "str" THEN v.value # "" ELSE v.value # <<>>

\* models.py: ChatMessage, ChatCompletionRequest
ChatMessages ==
    [role : {"system"}, content : {"", "be brief", "be kind"}]
    \cup [role : {"user", "assistant"}, content : {"Hello", "Hi"}]

MessageLists == UNION {[1..n -> ChatMessages] : n \in 0..MaxMessages}

StopValues ==
    {<<>>, <<Str("")>>, <<Str("END")>>, <<List(<<>>)>>,
     <<List(<<"END", "STOP">>)>>}

ChatCompletionRequests ==
    [model : Models, messages : MessageLists, temperature : {1},
     top_p : {<<>>}, max_tokens : {<<>>, <<16>>}, stop : StopValues,
     stream : BOOLEAN]

NoKwargs == [k \in {} |-> None]

RECURSIVE AnthropicConvertLoop(_, _, _)
\* the loop of AnthropicClient._convert_messages over the messages left
AnthropicConvertLoop(messages, system_message, anthropic_messages) ==
    IF messages = <<>>
    THEN [system_message |-> system_message,
          anthropic_messages |-> anthropic_messages]
    ELSE LET msg == Head(messages) IN
         IF msg.role = "system"
         THEN AnthropicConvertLoop(Tail(messages), <<msg.content>>,
                                   anthropic_messages)
         ELSE AnthropicConvertLoop(Tail(messages), system_message,
                  Append(anthropic_messages,
                         [role |-> msg.role, content |-> msg.content]))

\* a converter that puts each turn in front of the ones it has
AnthropicConvertMessagesPrepending(messages) ==
    [system_message |-> AnthropicConvertLoop(messages, <<>>, <<>>)
                            .system_message,
     anthropic_messages |->
         LET turns == AnthropicConvertLoop(messages, <<>>, <<>>)
                          .anthropic_messages
         IN  [i \in 1..Len(turns) |-> turns[Len(turns) + 1 - i]]]

\* AnthropicClient._convert_messages
AnthropicConvertMessages(messages) ==
    AnthropicConvertLoop(messages, <<>>, <<>>)

RECURSIVE GeminiConvertLoop(_, _)
\* the loop of GeminiClient._convert_messages over the messages left
GeminiConvertLoop(messages, gemini_messages) ==
    IF messages = <<>> THEN gemini_messages
    ELSE LET msg == Head(messages) IN
         IF msg.role = "system"
         THEN GeminiConvertLoop(Tail(messages), gemini_messages)
         ELSE IF msg.role = "user"
         THEN GeminiConvertLoop(Tail(messages),
                  Append(gemini_messages,
                         [role |-> "user",
                          parts |-> <<[text |-> msg.content]>>]))
         ELSE IF msg.role = "assistant"
         THEN GeminiConvertLoop(Tail(messages),
                  Append(gemini_messages,
                         [role |-> "model",
                          parts |-> <<[text |-> msg.content]>>]))
         ELSE GeminiConvertLoop(Tail(messages), gemini_messages)

\* GeminiClient._convert_messages
GeminiConvertMessages(messages) == GeminiConvertLoop(messages, <<>>)

RECURSIVE _extract_system_message(_)
\* an extraction that finds no system message
_extract_system_message_none(messages) == <<>>

\* GeminiClient._extract_system_message
_extract_system_message(messages) ==
    IF messages = <<>> THEN <<>>
    ELSE IF Head(messages).role = "system" THEN <<Head(messages).content>>
    ELSE _extract_system_message(Tail(messages))

\* a default of one token
MaxTokensOrOne(max_tokens) ==
    IF max_tokens # <<>> THEN max_tokens[1] ELSE 1

\* request.max_tokens or 4096
MaxTokensOrDefault(max_tokens) ==
    IF max_tokens # <<>> THEN max_tokens[1] ELSE DefaultMaxTokens

\* a stop value forwarded as it came
StopSequencesAsGiven(stop) == stop

\* [request.stop] if isinstance(request.stop, str) else request.stop
StopSequences(stop) ==
    IF stop.type = "str" THEN List(<<stop.value>>) ELSE stop

\* anthropic_client.py 179-192 and 241-254: the kwargs of the provider call
AnthropicKwargs(req) ==
    LET conv == AnthropicConvertMessages(req.messages)
        system_message == conv.system_message
    IN  [model |-> req.model, messages |-> conv.anthropic_messages,
         max_tokens |-> MaxTokensOrDefault(req.max_tokens)]
        @@ (IF system_message # <<>> /\ system_message[1] # ""
            THEN [system |-> system_message[1]] ELSE NoKwargs)
        @@ [temperature |-> req.temperature]
        @@ (IF req.top_p # <<>> THEN [top_p |-> req.top_p[1]] ELSE NoKwargs)
        @@ (IF req.stop # <<>> /\ Truthy(req.stop[1])
            THEN [stop_sequences |-> StopSequences(req.stop[1])]
            ELSE NoKwargs)

AnthropicCall(req, streaming) ==
    [method |-> IF streaming THEN "messages.stream" ELSE "messages.create",
     kwargs |-> AnthropicKwargs(req)]

\* gemini_client.py 201-207 and 282-288: genai.types.GenerationConfig(...)
GenerationConfig(req) ==
    [candidate_count |-> 1,
     max_output_tokens |-> req.max_tokens,
     temperature |-> req.temperature,
     top_p |-> req.top_p,
     stop_sequences |->
         IF req.stop # <<>> /\ req.stop[1].type = "str"
         THEN <<List(<<req.stop[1].value>>)>>
         ELSE IF req.stop # <<>> /\ Truthy(req.stop[1]) THEN req.stop
         ELSE <<>>]

\* the GenerativeModel and the generate_content_async call of the Gemini
\* adapter
GeminiCall(req, streaming) ==
    [method |-> "generate_content_async",
     model_name |-> req.model,
     system_instruction |-> _extract_system_message(req.messages),
     contents |-> GeminiConvertMessages(req.messages),
     generation_config |-> GenerationConfig(req),
     stream |-> streaming]

\* grok_client.py 136-152 and 194-210: the kwargs of the provider call
GrokKwargs(req, streaming) ==
    [model |-> req.model,
     messages |-> [i \in 1..Len(req.messages) |->
                      [role |-> req.messages[i].role,
                       content |-> req.messages[i].content]],
     stream |-> streaming]
    @@ [temperature |-> req.temperature]
    @@ (IF req.top_p # <<>> THEN [top_p |-> req.top_p[1]] ELSE NoKwargs)
    @@ (IF req.max_tokens # <<>> THEN [max_tokens |-> req.max_tokens[1]]
        ELSE NoKwargs)
    @@ (IF req.stop # <<>> /\ Truthy(req.stop[1])
        THEN [stop |-> req.stop[1]] ELSE NoKwargs)

GrokCall(req, streaming) ==
    [method |-> "chat.completions.create",
     kwargs |-> GrokKwargs(req, streaming)]

ProviderCall(a, req, streaming) ==
    CASE a = "anthropic" -> AnthropicCall(req, streaming)
      [] a = "gemini" -> GeminiCall(req, streaming)
      [] a = "grok" -> GrokCall(req, streaming)

\* a create_completion that refuses the request whose stream flag is set
CompletionCallRejectingStream(a, req) ==
    /\ phase = "idle"
    /\ adapter' = a
    /\ model' = req.model
    /\ request' = <<req>>
    /\ IF req.stream \/ (a # "anthropic" /\ ~available[a])
       THEN /\ phase' = "failed"
            /\ raised' = "ValueError"
            /\ call' = call
       ELSE /\ phase' = "calling"
            /\ raised' = None
            /\ call' = <<ProviderCall(a, req, FALSE)>>
    /\ UNCHANGED <<available, clock, completion_id, created, consumed, out,
                   response, completion, live, answer, server>>

\* create_completion of adapter a up to the provider call
CompletionCall(a, req) ==
    /\ phase = "idle"
    /\ adapter' = a
    /\ model' = req.model
    /\ request' = <<req>>
    /\ IF a # "anthropic" /\ ~available[a]
       THEN /\ phase' = "failed"
            /\ raised' = "ValueError"
            /\ call' = call
       ELSE /\ phase' = "calling"
            /\ raised' = None
            /\ call' = <<ProviderCall(a, req, FALSE)>>
    /\ UNCHANGED <<available, clock, completion_id, created, consumed, out,
                   response, completion, live, answer, server>>

\* create_stream_completion of adapter a up to the provider call
StreamCall(a, req) ==
    /\ phase = "idle"
    /\ adapter' = a
    /\ model' = req.model
    /\ request' = <<req>>
    /\ IF a # "anthropic" /\ ~available[a]
       THEN /\ phase' = "aborted"
            /\ raised' = "ValueError"
            /\ UNCHANGED <<completion_id, created, call>>
       ELSE /\ phase' = "calling"
            /\ raised' = None
            /\ call' = <<ProviderCall(a, req, TRUE)>>
            /\ IF a = "grok"
               THEN UNCHANGED <<completion_id, created>>
               ELSE /\ completion_id' = StreamCompletionId(clock)
                    /\ created' = StreamCreated(clock)
    /\ UNCHANGED <<available, clock, consumed, out, response, completion,
                   live, answer, server>>

BuilderNext ==
    \/ /\ phase = "idle"
       /\ \E a \in Adapters, req \in ChatCompletionRequests :
              CompletionCall(a, req)
    \/ /\ phase = "idle"
       /\ \E a \in Adapters, req \in ChatCompletionRequests :
              StreamCall(a, req)

BuilderSpec == StreamInit /\ [][BuilderNext]_vars

(***************************************************************************)
(* The model registry of each adapter: list_models, get_model and the      *)
(* hardcoded fallback list.  The live answer of the provider's model API   *)
(* is [ok |-> TRUE, ...] or, when the call raises or the SDK has no models *)
(* API, [ok |-> FALSE, error |-> ...].                                     *)
(***************************************************************************)
MaxLive == 2

\* models.py: ModelInfo
ModelInfo(id, cr, owned_by) ==
    [id |-> id, object |-> "model", created |-> cr, owned_by |-> owned_by]

AnthropicModelIds ==
    <<"claude-opus-4-5-20251101", "claude-haiku-4-5-20251001",
      "claude-sonnet-4-5-20250929", "claude-opus-4-1-20250805",
      "claude-opus-4-20250514", "claude-sonnet-4-20250514",
      "claude-3-7-sonnet-20250219", "claude-3-5-haiku-20241022",
      "claude-3-haiku-20240307">>

GeminiModelIds == <<"gemini-1.5-pro", "gemini-1.5-flash", "gemini-1.0-pro">>

GrokModelIds ==
    <<"grok-2-latest", "grok-2", "grok-2-vision-latest",
      "grok-2-vision-1212", "grok-beta", "grok-vision-beta">>

\* _get_hardcoded_models of each client
AnthropicHardcodedModels(now) ==
    [i \in 1..Len(AnthropicModelIds) |->
        ModelInfo(AnthropicModelIds[i], now \div MsPerSecond, "anthropic")]

GeminiHardcodedModels(now) ==
    [i \in 1..Len(GeminiModelIds) |->
        ModelInfo(GeminiModelIds[i], now \div MsPerSecond, "google")]

GrokHardcodedModels(now) ==
    [i \in 1..Len(GrokModelIds) |->
        ModelInfo(GrokModelIds[i], now \div MsPerSecond, "xai")]

\* what list_models and get_model hand back
Listed(models) == [raised |-> None, models |-> <<models>>]
ListRaises(exc) == [raised |-> exc, models |-> <<>>]
Found(info) == [raised |-> None, info |-> <<info>>]
NotFound == [raised |-> "ValueError", info |-> <<>>]

RECURSIVE FindModel(_, _)
\* for model in hardcoded_models: if model.id == model_id: return model
FindModel(hardcoded_models, model_id) ==
    IF hardcoded_models = <<>> THEN NotFound
    ELSE IF Head(hardcoded_models).id = model_id
    THEN Found(Head(hardcoded_models))
    ELSE FindModel(Tail(hardcoded_models), model_id)

\* The live answers.  created_at of an Anthropic model is a datetime or a
\* str; ts is the time it denotes, <<>> for a str that is no ISO 8601 date.
LiveFailures == {"APIConnectionError", "AuthenticationError", "unsupported"}

CreatedAts ==
    {[type |-> "datetime", ts |-> <<5>>], [type |-> "str", ts |-> <<5>>],
     [type |-> "str", ts |-> <<>>]}

AnthropicLiveIds == {"claude-3-haiku-20240307", "claude-3-opus-latest"}
GeminiLiveIds == {"gemini-1.5-pro", "gemini-2.0-flash"}
GrokLiveIds == {"grok-2-latest", "grok-3"}

AnthropicLiveModels == [id : AnthropicLiveIds, created_at : CreatedAts]

\* the name of a Gemini model is "models/" followed by its id
GeminiName(id) == <<"models/", id>>

GeminiLiveModels ==
    [name : {GeminiName(id) : id \in GeminiLiveIds},
     supported_generation_methods : {{"generateContent", "countTokens"},
                                     {"embedContent"}}]

GrokLiveModels == [id : GrokLiveIds, created : {7}, owned_by : {"xai"}]

LiveModels(a) ==
    CASE a = "anthropic" -> AnthropicLiveModels
      [] a = "gemini" -> GeminiLiveModels
      [] a = "grok" -> GrokLiveModels

LiveListings(a) ==
    {[ok |-> FALSE, error |-> e] : e \in LiveFailures}
    \cup {[ok |-> TRUE, data |-> d] :
             d \in UNION {[1..n -> LiveModels(a)] : n \in 0..MaxLive}}

\* the provider's answer to the lookup of model_id
LiveLookups(a, model_id) ==
    {[ok |-> FALSE, error |-> e] : e \in LiveFailures \cup {"NotFoundError"}}
    \cup {[ok |-> TRUE, model |-> m] :
             m \in {l \in LiveModels(a) :
                       IF a = "gemini" THEN l.name = GeminiName(model_id)
                       ELSE l.id = model_id}}

\* anthropic_client.py 52-62: the created timestamp of a listed model; a
\* created_at that does not parse gives the current time
AnthropicCreatedTimestamp(created_at, now) ==
    IF created_at.ts # <<>> THEN created_at.ts[1] ELSE now \div MsPerSecond

\* AnthropicClient.list_models
AnthropicListModels(outcome, now) ==
    IF outcome.ok
    THEN Listed([i \in 1..Len(outcome.data) |->
                    ModelInfo(outcome.data[i].id,
                              AnthropicCreatedTimestamp(
                                  outcome.data[i].created_at, now),
                              "anthropic")])
    ELSE Listed(AnthropicHardcodedModels(now))

\* AnthropicClient.get_model: response.created_at.replace('Z', '+00:00')
\* raises TypeError on a datetime, and fromisoformat raises ValueError on a
\* str that is no ISO 8601 date; both land in the except branch
AnthropicGetModel(model_id, outcome, now) ==
    IF /\ outcome.ok
       /\ outcome.model.created_at.type = "str"
       /\ outcome.model.created_at.ts # <<>>
    THEN Found(ModelInfo(outcome.model.id, outcome.model.created_at.ts[1],
                         "anthropic"))
    ELSE FindModel(AnthropicHardcodedModels(now), model_id)

GeneratesContent(m) == "generateContent" \in m.supported_generation_methods
NotModelsPrefix(piece) == piece # "models/"
\* name.replace("models/", "")
StripModelsPrefix(name) == SelectSeq(name, NotModelsPrefix)[1]

\* GeminiClient.list_models, the key configured
GeminiListModels(outcome, now) ==
    IF outcome.ok
    THEN LET generating == SelectSeq(outcome.data, GeneratesContent)
         IN  Listed([i \in 1..Len(generating) |->
                        ModelInfo(StripModelsPrefix(generating[i].name),
                                  now \div MsPerSecond, "google")])
    ELSE Listed(GeminiHardcodedModels(now))

\* GeminiClient.get_model, the key configured
GeminiGetModel(model_id, outcome, now) ==
    IF outcome.ok
    THEN Found(ModelInfo(StripModelsPrefix(outcome.model.name),
                         now \div MsPerSecond, "google"))
    ELSE FindModel(GeminiHardcodedModels(now), model_id)

\* a listing that lets the failure of the live call through
GrokListModelsRaising(outcome, now) ==
    IF outcome.ok
    THEN Listed([i \in 1..Len(outcome.data) |->
                    ModelInfo(outcome.data[i].id, outcome.data[i].created,
                              outcome.data[i].owned_by)])
    ELSE ListRaises(outcome.error)

\* GrokClient.list_models, the key configured
GrokListModels(outcome, now) ==
    IF outcome.ok
    THEN Listed([i \in 1..Len(outcome.data) |->
                    ModelInfo(outcome.data[i].id, outcome.data[i].created,
                              outcome.data[i].owned_by)])
    ELSE Listed(GrokHardcodedModels(now))

\* GrokClient.get_model, the key configured
GrokGetModel(model_id, outcome, now) ==
    IF outcome.ok
    THEN Found(ModelInfo(outcome.model.id, outcome.model.created,
                         outcome.model.owned_by))
    ELSE FindModel(GrokHardcodedModels(now), model_id)

RegistryList(a, outcome, now) ==
    CASE a = "anthropic" -> AnthropicListModels(outcome, now)
      [] a = "gemini" -> GeminiListModels(outcome, now)
      [] a = "grok" -> GrokListModels(outcome, now)

RegistryGet(a, model_id, outcome, now) ==
    CASE a = "anthropic" -> AnthropicGetModel(model_id, outcome, now)
      [] a = "gemini" -> GeminiGetModel(model_id, outcome, now)
      [] a = "grok" -> GrokGetModel(model_id, outcome, now)

LiveIds(a) ==
    CASE a = "anthropic" -> AnthropicLiveIds
      [] a = "gemini" -> GeminiLiveIds
      [] a = "grok" -> GrokLiveIds

QueryIds(a) == LiveIds(a) \cup {"no-such-model"}

\* list_models of adapter a, the provider's model API answering outcome
ListModels(a, outcome) ==
    /\ phase = "idle"
    /\ adapter' = a
    /\ request' = <<[method |-> "list_models", limit |-> 100]>>
    /\ IF a # "anthropic" /\ ~available[a]
       THEN /\ live' = <<>>
            /\ answer' = <<(<<>>)>>
            /\ raised' = None
            /\ phase' = "listed"
       ELSE LET r == RegistryList(a, outcome, clock) IN
            /\ live' = <<outcome>>
            /\ answer' = r.models
            /\ raised' = r.raised
            /\ phase' = IF r.raised = None THEN "listed" ELSE "failed"
    /\ UNCHANGED <<available, clock, model, completion_id, created, consumed,
                   out, response, completion, call, server>>

\* get_model(model_id) of adapter a, the provider's model API answering
\* outcome
GetModel(a, model_id, outcome) ==
    /\ phase = "idle"
    /\ adapter' = a
    /\ model' = model_id
    /\ request' = <<[method |-> "get_model", model_id |-> model_id]>>
    /\ IF a # "anthropic" /\ ~available[a]
       THEN /\ live' = <<>>
            /\ answer' = <<>>
            /\ raised' = "ValueError"
            /\ phase' = "failed"
       ELSE LET r == RegistryGet(a, model_id, outcome, clock) IN
            /\ live' = <<outcome>>
            /\ answer' = r.info
            /\ raised' = r.raised
            /\ phase' = IF r.raised = None THEN "found" ELSE "failed"
    /\ UNCHANGED <<available, clock, completion_id, created, consumed, out,
                   response, completion, call, server>>

RegistryNext ==
    \/ Tick
    \/ /\ phase = "idle"
       /\ \E a \in Adapters : \E outcome \in LiveListings(a) :
              ListModels(a, outcome)
    \/ /\ phase = "idle"
       /\ \E a \in Adapters : \E model_id \in QueryIds(a) :
              \E outcome \in LiveLookups(a, model_id) :
                  GetModel(a, model_id, outcome)

RegistrySpec == StreamInit /\ [][RegistryNext]_vars

(***************************************************************************)
(* create_chat_completion: the choice of the provider.  A model id is the  *)
(* sequence of the pieces of its text; no two pieces joined spell a word   *)
(* that neither of them holds.                                             *)
(***************************************************************************)
MaxPieces == 3

IdPieces == {"claude", "Gemini", "gemini", "GROK", "grok", "-x"}

\* str.lower() of a piece
Lower(piece) ==
    CASE piece = "Gemini" -> "gemini"
      [] piece = "GROK" -> "grok"
      [] OTHER -> piece

\* word in text
Contains(text, word) == \E i \in 1..Len(text) : text[i] = word

\* a choice that looks for "grok" first
RouteGrokFirst(model_id) ==
    LET model_lower == [i \in 1..Len(model_id) |-> Lower(model_id[i])]
    IN  IF Contains(model_lower, "grok") THEN "grok"
        ELSE IF Contains(model_lower, "gemini") THEN "gemini"
        ELSE "anthropic"

\* main.py 147-154
Route(model_id) ==
    LET model_lower == [i \in 1..Len(model_id) |-> Lower(model_id[i])]
    IN  IF Contains(model_lower, "gemini") THEN "gemini"
        ELSE IF Contains(model_lower, "grok") THEN "grok"
        ELSE "anthropic"

RouterIds == UNION {[1..n -> IdPieces] : n \in 1..MaxPieces}

\* create_chat_completion picks the client of a validated request
ChooseClient(model_id) ==
    /\ phase = "idle"
    /\ model' = model_id
    /\ adapter' = Route(model_id)
    /\ phase' = "routed"
    /\ UNCHANGED <<available, clock, completion_id, created, consumed, out,
                   raised, response, completion, others, server>>

RouterNext ==
    /\ phase = "idle"
    /\ \E model_id \in RouterIds : ChooseClient(model_id)

RouterSpec == StreamInit /\ [][RouterNext]_vars

(***************************************************************************)
(* The gateway application, main.py: the availability cache and the        *)
(* handlers of /v1/chat/completions, /v1/models and /v1/models/{id}.  One  *)
(* action of a create_chat_completion call is what the event loop runs of  *)
(* it without interruption: from one await of a provider to the next.      *)
(***************************************************************************)
\* the model ids that callers ask for
GatewayIds ==
    {"claude-3-haiku-20240307", "gemini-1.5-pro", "grok-2-latest",
     "nonexistent-model"}

\* the text of an id, in pieces
Pieces(id) ==
    CASE id = "claude-3-haiku-20240307" -> <<"claude", "-3-haiku-20240307">>
      [] id = "gemini-1.5-pro" -> <<"gemini", "-1.5-pro">>
      [] id = "grok-2-latest" -> <<"grok", "-2-latest">>
      [] OTHER -> <<id>>

\* the model that a provider lists when its listing succeeds
GatewayLiveId(a) ==
    CASE a = "anthropic" -> "claude-3-opus-latest"
      [] a = "gemini" -> "gemini-2.0-flash"
      [] a = "grok" -> "grok-3"

\* what a provider answers to the gateway's listing: an authentication
\* failure, or one model that the gateway can use
GatewayListings(a) ==
    {[ok |-> FALSE, error |-> "AuthenticationError"]}
    \cup {[ok |-> TRUE, data |-> <<m>>] :
             m \in {l \in LiveModels(a) :
                       IF a = "gemini"
                       THEN /\ l.name = GeminiName(GatewayLiveId(a))
                            /\ GeneratesContent(l)
                       ELSE l.id = GatewayLiveId(a)}}

UpstreamErrors == {"AuthenticationError", "APIConnectionError"}

\* a list_models that does not look at the availability of its client
ClientListModelsUnchecked(a, outcome, now) ==
    RegistryList(a, outcome, now)

\* list_models of the client of adapter a, whatever its availability
ClientListModels(a, outcome, now) ==
    IF a # "anthropic" /\ ~available[a] THEN Listed(<<>>)
    ELSE RegistryList(a, outcome, now)

\* {model.id for model in models}
Ids(models) == {models[i].id : i \in 1..Len(models)}

ListedIds(a, outcome) == Ids(ClientListModels(a, outcome, clock).models[1])

\* get_available_models finds the cache unset and calls the first list_models
StartRebuild(rec, forced) ==
    [rec EXCEPT !.pc = "list_anthropic", !.forced = forced,
                !.listed.anthropic = @ + 1]

\* a dispatch that hands every request to the first client
DispatchToFirstClient(rec) ==
    LET client == "anthropic" IN
    IF rec.stream
    THEN [rec EXCEPT !.client = client, !.status = 200, !.pc = "streaming"]
    ELSE IF client # "anthropic" /\ ~available[client]
    THEN [rec EXCEPT !.client = client, !.status = 500,
                     !.detail = "ValueError", !.pc = "done"]
    ELSE [rec EXCEPT !.client = client, !.calls = @ + 1, !.pc = "calling"]

\* main.py 147-171: the client is chosen and its method called.  A stream
\* request returns the StreamingResponse at once, the generator not yet
\* started; create_completion of a client without key raises before any
\* await.
Dispatch(rec) ==
    LET client == Route(Pieces(rec.model)) IN
    IF rec.stream
    THEN [rec EXCEPT !.client = client, !.status = 200, !.pc = "streaming"]
    ELSE IF client # "anthropic" /\ ~available[client]
    THEN [rec EXCEPT !.client = client, !.status = 500,
                     !.detail = "ValueError", !.pc = "done"]
    ELSE [rec EXCEPT !.client = client, !.calls = @ + 1, !.pc = "calling"]

\* a rejection of the unknown model with the status of the upstream failures
RejectUnknownModelAsFailure(rec) ==
    [rec EXCEPT !.status = 500, !.detail = "Model not found", !.pc = "done"]

\* main.py 140-145
RejectUnknownModel(rec) ==
    [rec EXCEPT !.status = 400, !.detail = "Model not found", !.pc = "done"]

\* a rebuild that fills the cache provider by provider
FinishRebuildInPlace(h, rec, ids) ==
    LET done == [rec EXCEPT !.anthropic_models = {}, !.gemini_models = {},
                            !.available_models = <<ids>>]
    IN  IF rec.model \in ids
        THEN /\ _model_cache' = <<rec.anthropic_models>>
             /\ handlers' = [handlers EXCEPT ![h] = Dispatch(done)]
        ELSE IF ~rec.forced
        THEN /\ _model_cache' = <<>>
             /\ handlers' = [handlers EXCEPT ![h] = StartRebuild(done, TRUE)]
        ELSE /\ _model_cache' = <<rec.anthropic_models>>
             /\ handlers' = [handlers EXCEPT ![h] = RejectUnknownModel(done)]

\* main.py 51-54 and 135-154: the three lists are in, the cache is assigned
\* and the model looked up in it
FinishRebuild(h, rec, ids) ==
    LET done == [rec EXCEPT !.anthropic_models = {}, !.gemini_models = {},
                            !.available_models = <<ids>>]
    IN  IF rec.model \in ids
        THEN /\ _model_cache' = <<ids>>
             /\ handlers' = [handlers EXCEPT ![h] = Dispatch(done)]
        ELSE IF ~rec.forced
        THEN /\ _model_cache' = <<>>
             /\ handlers' = [handlers EXCEPT ![h] = StartRebuild(done, TRUE)]
        ELSE /\ _model_cache' = <<ids>>
             /\ handlers' = [handlers EXCEPT ![h] = RejectUnknownModel(done)]

\* a validation that rejects the id that the cache lacks, without a rebuild
ReceiveRejecting(h, id, stream) ==
    /\ phase = "idle"
    /\ handlers[h].pc = "idle"
    /\ \A k \in Handlers : k < h => handlers[k].pc # "idle"
    /\ LET rec == [handlers[h] EXCEPT !.model = id, !.stream = stream,
                                      !.populated = _model_cache # <<>>,
                                      !.available_models = _model_cache]
       IN  IF _model_cache # <<>>
           THEN /\ handlers' = [handlers EXCEPT ![h] =
                       IF id \in _model_cache[1] THEN Dispatch(rec)
                       ELSE RejectUnknownModel(rec)]
                /\ UNCHANGED _model_cache
           ELSE /\ handlers' =
                       [handlers EXCEPT ![h] = StartRebuild(rec, FALSE)]
                /\ UNCHANGED _model_cache
    /\ UNCHANGED <<available, clock, adapter, model, phase, completion_id,
                   created, consumed, out, raised, response, completion,
                   others, process, cancel>>

\* create_chat_completion is called: main.py 128-138, up to the first await
\* of a provider
Receive(h, id, stream) ==
    /\ phase = "idle"
    /\ handlers[h].pc = "idle"
    /\ \A k \in Handlers : k < h => handlers[k].pc # "idle"
    /\ LET rec == [handlers[h] EXCEPT !.model = id, !.stream = stream,
                                      !.populated = _model_cache # <<>>,
                                      !.available_models = _model_cache]
       IN  IF _model_cache # <<>>
           THEN IF id \in _model_cache[1]
                THEN /\ handlers' = [handlers EXCEPT ![h] = Dispatch(rec)]
                     /\ UNCHANGED _model_cache
                ELSE /\ handlers' =
                            [handlers EXCEPT ![h] = StartRebuild(rec, TRUE)]
                     /\ _model_cache' = <<>>
           ELSE /\ handlers' =
                       [handlers EXCEPT ![h] = StartRebuild(rec, FALSE)]
                /\ UNCHANGED _model_cache
    /\ UNCHANGED <<available, clock, adapter, model, phase, completion_id,
                   created, consumed, out, raised, response, completion,
                   others, process, cancel>>

\* main.py 48-50: anthropic_client.list_models answers; gemini_client's
\* list_models runs without an await; grok_client's awaits its provider when
\* the key is configured
AnthropicListed(h, anthropic_outcome, gemini_outcome) ==
    /\ phase = "idle"
    /\ handlers[h].pc = "list_anthropic"
    /\ LET rec == [handlers[h] EXCEPT
                      !.anthropic_models =
                          ListedIds("anthropic", anthropic_outcome),
                      !.gemini_models = ListedIds("gemini", gemini_outcome),
                      !.listed.gemini = @ + 1,
                      !.listed.grok = @ + 1]
       IN  IF available.grok
           THEN /\ handlers' = [handlers EXCEPT ![h] =
                                   [rec EXCEPT !.pc = "list_grok"]]
                /\ UNCHANGED _model_cache
           ELSE FinishRebuild(h, rec,
                              rec.anthropic_models \cup rec.gemini_models)
    /\ UNCHANGED <<available, clock, adapter, model, phase, completion_id,
                   created, consumed, out, raised, response, completion,
                   others, process, cancel>>

\* a rebuild whose union leaves out the list of gemini_client
GrokListedWithoutGemini(h, grok_outcome) ==
    /\ phase = "idle"
    /\ handlers[h].pc = "list_grok"
    /\ FinishRebuild(h, handlers[h],
                     handlers[h].anthropic_models
                     \cup ListedIds("grok", grok_outcome))
    /\ UNCHANGED <<available, clock, adapter, model, phase, completion_id,
                   created, consumed, out, raised, response, completion,
                   others, process, cancel>>

\* main.py 50-54: grok_client.list_models answers
GrokListed(h, grok_outcome) ==
    /\ phase = "idle"
    /\ handlers[h].pc = "list_grok"
    /\ FinishRebuild(h, handlers[h],
                     handlers[h].anthropic_models
                     \cup handlers[h].gemini_models
                     \cup ListedIds("grok", grok_outcome))
    /\ UNCHANGED <<available, clock, adapter, model, phase, completion_id,
                   created, consumed, out, raised, response, completion,
                   others, process, cancel>>

\* main.py 163-171: create_completion returns or raises
CompletionReturns(h, outcome) ==
    /\ phase = "idle"
    /\ handlers[h].pc = "calling"
    /\ handlers' = [handlers EXCEPT ![h] =
           IF outcome = "ok"
           THEN [@ EXCEPT !.status = 200, !.pc = "done"]
           ELSE [@ EXCEPT !.status = 500, !.detail = outcome, !.pc = "done"]]
    /\ UNCHANGED <<available, clock, adapter, model, phase, completion_id,
                   created, consumed, out, raised, response, completion,
                   others, _model_cache, process, cancel>>

\* the StreamingResponse, its status sent, runs create_stream_completion:
\* the generator of a client without key raises at once, any other calls
\* its provider
StreamRuns(h, outcome) ==
    /\ phase = "idle"
    /\ handlers[h].pc = "streaming"
    /\ handlers' = [handlers EXCEPT ![h] =
           IF @.client # "anthropic" /\ ~available[@.client]
           THEN [@ EXCEPT !.pc = "aborted"]
           ELSE IF outcome = "ok"
           THEN [@ EXCEPT !.calls = @ + 1, !.pc = "done"]
           ELSE [@ EXCEPT !.calls = @ + 1, !.pc = "aborted"]]
    /\ UNCHANGED <<available, clock, adapter, model, phase, completion_id,
                   created, consumed, out, raised, response, completion,
                   others, _model_cache, process, cancel>>

\* what a provider answers to the listing of GET /v1/models: a failure, no
\* model, one model, or one model twice
AggregateListings(a) ==
    {[ok |-> FALSE, error |-> e] : e \in LiveFailures}
    \cup {[ok |-> TRUE, data |-> d] :
             d \in {<<>>} \cup {<<m>> : m \in LiveModels(a)}
                   \cup {<<m, m>> : m \in LiveModels(a)}}

\* all_models = anthropic_models + gemini_models + grok_models, in another
\* order
AllModelsGrokFirst(anthropic_models, gemini_models, grok_models) ==
    grok_models \o anthropic_models \o gemini_models

\* main.py 76: all_models = anthropic_models + gemini_models + grok_models
AllModels(anthropic_models, gemini_models, grok_models) ==
    anthropic_models \o gemini_models \o grok_models

\* GET /v1/models, main.py 67-86: the three clients are listed one after the
\* other, and an exception of any of them becomes the response 500
GatewayListModels(anthropic_outcome, gemini_outcome, grok_outcome) ==
    /\ phase = "idle"
    /\ LET a == ClientListModels("anthropic", anthropic_outcome, clock)
           g == ClientListModels("gemini", gemini_outcome, clock)
           x == ClientListModels("grok", grok_outcome, clock)
       IN  /\ live' = <<[anthropic |-> anthropic_outcome,
                         gemini |-> gemini_outcome, grok |-> grok_outcome]>>
           /\ request' = <<[method |-> "GET", path |-> "/v1/models"]>>
           /\ IF a.raised = None /\ g.raised = None /\ x.raised = None
              THEN /\ answer' = <<[status |-> 200,
                                   data |-> AllModels(a.models[1], g.models[1],
                                                      x.models[1])]>>
                   /\ raised' = None
                   /\ phase' = "listed"
              ELSE /\ answer' = <<[status |-> 500, data |-> <<>>]>>
                   /\ raised' = "HTTPException"
                   /\ phase' = "failed"
    /\ UNCHANGED <<available, clock, adapter, model, completion_id, created,
                   consumed, out, response, completion, call, server>>

\* get_model of client a as main.py calls it: a client without key raises
\* ValueError before it asks its provider
ClientGetModel(a, model_id, outcome, now) ==
    IF a # "anthropic" /\ ~available[a] THEN NotFound
    ELSE RegistryGet(a, model_id, outcome, now)

\* main.py 94-103: the nested try blocks; a ValueError of one client hands
\* the id to the next, and that of the last one is raised again
GetModelChain(anthropic, gemini, grok) ==
    IF anthropic.raised = None THEN anthropic
    ELSE IF gemini.raised = None THEN gemini
    ELSE IF grok.raised = None THEN grok
    ELSE NotFound

\* the ids asked of GET /v1/models/{model_id}
GetModelIds == UNION {QueryIds(a) : a \in Adapters}

\* GET /v1/models/{model_id}, main.py 89-116: the ValueError of the chain
\* becomes the response 404; no client raises anything else
GatewayGetModel(model_id, anthropic_outcome, gemini_outcome, grok_outcome) ==
    /\ phase = "idle"
    /\ LET r == GetModelChain(
                    ClientGetModel("anthropic", model_id, anthropic_outcome,
                                   clock),
                    ClientGetModel("gemini", model_id, gemini_outcome, clock),
                    ClientGetModel("grok", model_id, grok_outcome, clock))
       IN  /\ live' = <<[anthropic |-> anthropic_outcome,
                         gemini |-> gemini_outcome, grok |-> grok_outcome]>>
           /\ request' = <<[method |-> "GET /v1/models/model_id",
                            model_id |-> model_id]>>
           /\ model' = model_id
           /\ IF r.raised = None
              THEN /\ answer' = <<[status |-> 200, data |-> r.info]>>
                   /\ raised' = None
                   /\ phase' = "found"
              ELSE /\ answer' = <<[status |-> 404, data |-> <<>>]>>
                   /\ raised' = "HTTPException"
                   /\ phase' = "failed"
    /\ UNCHANGED <<available, clock, adapter, completion_id, created,
                   consumed, out, response, completion, call, server>>

\* no create_chat_completion call has been received
Quiet == _model_cache = <<>> /\ \A h \in Handlers : handlers[h] = IdleHandler

GatewayNext ==
    \/ \E h \in Handlers, id \in GatewayIds, stream \in BOOLEAN :
           Receive(h, id, stream)
    \/ \E h \in Handlers :
           /\ handlers[h].pc = "list_anthropic"
           /\ \E oa \in GatewayListings("anthropic"),
                 og \in GatewayListings("gemini") : AnthropicListed(h, oa, og)
    \/ \E h \in Handlers :
           /\ handlers[h].pc = "list_grok"
           /\ \E ox \in GatewayListings("grok") : GrokListed(h, ox)
    \/ \E h \in Handlers, outcome \in {"ok"} \cup UpstreamErrors :
           CompletionReturns(h, outcome)
    \/ \E h \in Handlers, outcome \in {"ok"} \cup UpstreamErrors :
           StreamRuns(h, outcome)
    \/ /\ phase = "idle" /\ Quiet
       /\ \E oa \in AggregateListings("anthropic"),
             og \in AggregateListings("gemini"),
             ox \in AggregateListings("grok") : GatewayListModels(oa, og, ox)
    \/ /\ phase = "idle" /\ Quiet
       /\ \E id \in GetModelIds :
              \E anthropic \in LiveLookups("anthropic", id),
                 gemini \in LiveLookups("gemini", id),
                 grok \in LiveLookups("grok", id) :
                  GatewayGetModel(id, anthropic, gemini, grok)
    \/ /\ phase = "idle" /\ Quiet
       /\ \E a \in Adapters : \E outcome \in GatewayListings(a) :
              ListModels(a, outcome)
    \/ /\ phase = "idle" /\ Quiet
       /\ \E a \in Adapters : \E model_id \in QueryIds(a) :
              \E outcome \in LiveLookups(a, model_id) :
                  GetModel(a, model_id, outcome)

GatewaySpec == StreamInit /\ [][GatewayNext]_vars

(***************************************************************************)
(* The start of the process: the import of app.main runs config.py and the *)
(* constructor of each client, in the order of the imports of main.py.     *)
(* A variable of the environment is <<>> when unset and <<v>> when set, v  *)
(* a sequence of characters.                                               *)
(***************************************************************************)
EnvValues == {<<>>, <<"">>, <<"key">>}

Environments ==
    [ANTHROPIC_API_KEY : EnvValues, GOOGLE_API_KEY : EnvValues,
     GROK_API_KEY : EnvValues, API_KEYS : {<<>>, <<"alice:op_wui_abc">>}]

\* Settings(), config.py 8-20: a required field unset is a ValidationError;
\* extra="ignore" drops the variables that are no field of the class
Settings(env) ==
    IF env.ANTHROPIC_API_KEY = <<>>
    THEN [raised |-> "ValidationError", settings |-> <<>>]
    ELSE [raised |-> None,
          settings |-> <<[anthropic_api_key |-> env.ANTHROPIC_API_KEY[1],
                          google_api_key |-> env.GOOGLE_API_KEY,
                          api_keys |-> IF env.API_KEYS = <<>> THEN ""
                                       ELSE env.API_KEYS[1],
                          host |-> "0.0.0.0", port |-> 8000,
                          log_level |-> "info"]>>]

\* bool() of an optional SecretStr: None and the empty secret are false
SecretTruthy(secret) == secret # <<>> /\ secret[1] # ""

Starting(env) ==
    [pc |-> "config", env |-> env, settings |-> <<>>, raised |-> None,
     clients |-> {}]

StartupInit ==
    /\ process \in {<<Starting(env)>> : env \in Environments}
    /\ available = [gemini |-> FALSE, grok |-> FALSE]
    /\ clock = ClockStart
    /\ adapter = None
    /\ model = None
    /\ phase = "idle"
    /\ completion_id = None
    /\ created = None
    /\ consumed = <<>>
    /\ out = <<>>
    /\ raised = None
    /\ response = <<>>
    /\ completion = <<>>
    /\ request = <<>>
    /\ call = <<>>
    /\ live = <<>>
    /\ answer = <<>>
    /\ _model_cache = <<>>
    /\ handlers = [h \in Handlers |-> IdleHandler]
    /\ cancel = <<>>

\* config.py 23: settings = Settings()
LoadSettings ==
    /\ process # <<>>
    /\ process[1].pc = "config"
    /\ LET loaded == Settings(process[1].env) IN
       process' = <<[process[1] EXCEPT
                        !.settings = loaded.settings,
                        !.raised = loaded.raised,
                        !.pc = IF loaded.raised = None THEN "anthropic_client"
                               ELSE "crashed"]>>
    /\ UNCHANGED <<available, clock, adapter, model, phase, completion_id,
                   created, consumed, out, raised, response, completion,
                   others, _model_cache, handlers, cancel>>

\* anthropic_client.py 28-31 and 309: anthropic_client = AnthropicClient()
AnthropicClientInit ==
    /\ process # <<>>
    /\ process[1].pc = "anthropic_client"
    /\ process' = <<[process[1] EXCEPT
                        !.clients = @ \cup {"anthropic"},
                        !.pc = "gemini_client"]>>
    /\ UNCHANGED <<available, clock, adapter, model, phase, completion_id,
                   created, consumed, out, raised, response, completion,
                   others, _model_cache, handlers, cancel>>

\* gemini_client.py 32-38 and 343: gemini_client = GeminiClient()
GeminiClientInit ==
    /\ process # <<>>
    /\ process[1].pc = "gemini_client"
    /\ available' = [available EXCEPT !.gemini =
                        SecretTruthy(process[1].settings[1].google_api_key)]
    /\ process' = <<[process[1] EXCEPT
                        !.clients = @ \cup {"gemini"},
                        !.pc = "grok_client"]>>
    /\ UNCHANGED <<clock, adapter, model, phase, completion_id, created,
                   consumed, out, raised, response, completion, others,
                   _model_cache, handlers, cancel>>

\* grok_client.py 25-34 and 260: grok_client = GrokClient(); the read of an
\* attribute that the settings object lacks raises AttributeError
GrokClientInit ==
    /\ process # <<>>
    /\ process[1].pc = "grok_client"
    /\ IF "grok_api_key" \in DOMAIN process[1].settings[1]
       THEN /\ available' = [available EXCEPT !.grok =
                    SecretTruthy(process[1].settings[1].grok_api_key)]
            /\ process' = <<[process[1] EXCEPT
                                !.clients = @ \cup {"grok"},
                                !.pc = "started"]>>
       ELSE /\ process' = <<[process[1] EXCEPT
                                !.raised = "AttributeError",
                                !.pc = "crashed"]>>
            /\ UNCHANGED available
    /\ UNCHANGED <<clock, adapter, model, phase, completion_id, created,
                   consumed, out, raised, response, completion, others,
                   _model_cache, handlers, cancel>>

StartupNext ==
    \/ LoadSettings
    \/ AnthropicClientInit
    \/ GeminiClientInit
    \/ GrokClientInit

StartupSpec == StartupInit /\ [][StartupNext]_vars

(***************************************************************************)
(* The generators and their consumer.  The consumer, the StreamingResponse *)
(* of main.py 158-161, resumes the generator until it is exhausted; when   *)
(* the client disconnects it is cancelled, and the CancelledError is       *)
(* raised in the generator at the await it is suspended at.                *)
(***************************************************************************)
\* the provider events of the runs with a consumer
ConsumerAnthropicEvents ==
    {[type |-> "message_start"], TextDelta("A"), [type |-> "message_stop"]}

ConsumerGrokChunks ==
    {c \in GrokChunks :
        /\ c.id = <<"xai-", 1>>
        /\ c.choices # <<>> =>
               /\ c.choices[1].delta.role = "assistant"
               /\ c.choices[1].delta.content = "A"
               /\ c.choices[1].finish_reason \in {None, "stop"}}

\* The provider's stream after the CancelledError has left the generator.
\* The async with of anthropic_client.py 259 closes it on the way out; the
\* Gemini and the Grok generator hold their stream in a local variable and
\* have no statement that closes it, so that it is closed or left open as
\* the stream object of the SDK makes it.
ClosedOnCancel(a) == IF a = "anthropic" THEN {TRUE} ELSE BOOLEAN

\* the consumer is cancelled while the generator waits for the next event
\* of the provider: except Exception does not catch the CancelledError
CancelWaiting ==
    /\ phase = "open"
    /\ \E closed \in ClosedOnCancel(adapter) :
           cancel' = <<[at |-> "await", closed |-> closed]>>
    /\ phase' = "cancelled"
    /\ raised' = "CancelledError"
    /\ UNCHANGED <<available, clock, adapter, model, completion_id, created,
                   consumed, out, response, completion, others,
                   _model_cache, handlers, process>>

\* a generator that is started again by the resumption after its end
NextAfterEndRestarting ==
    /\ phase \in {"done", "aborted", "cancelled"}
    /\ answer' = <<"StopAsyncIteration">>
    /\ phase' = "open"
    /\ UNCHANGED <<available, clock, adapter, model, completion_id, created,
                   consumed, out, raised, response, completion, request,
                   call, live, server>>

\* the generator has returned or an exception has left it, and it is
\* resumed once more: StopAsyncIteration, and nothing is yielded
NextAfterEnd ==
    /\ phase \in {"done", "aborted", "cancelled"}
    /\ answer' = <<"StopAsyncIteration">>
    /\ phase' = phase
    /\ UNCHANGED <<available, clock, adapter, model, completion_id, created,
                   consumed, out, raised, response, completion, request,
                   call, live, server>>

\* a resumption of the generator that the consumer is iterating
Resumption ==
    \/ \E e \in ConsumerAnthropicEvents : AnthropicEvent(e)
    \/ \E c \in GeminiChunks : GeminiChunk(c)
    \/ \E c \in ConsumerGrokChunks : GrokChunk(c)
    \/ StreamEnd
    \/ GeminiDone
    \/ TransportError
    \/ CancelWaiting

ConsumerNext ==
    \/ \E a \in Adapters, m \in Models : StartStream(a, m)
    \/ Resumption
    \/ NextAfterEnd

ConsumerSpec == StreamInit /\ [][ConsumerNext]_vars

\* The generator after its first resumption, which ran the code of
\* create_stream_completion before the loop (StartStream): the locals are
\* bound, the provider's stream is open or the adapter has refused.
Started ==
    /\ available \in Availabilities
    /\ clock = ClockStart
    /\ adapter \in Adapters
    /\ model \in Models
    /\ IF adapter # "anthropic" /\ ~available[adapter]
       THEN /\ phase = "aborted"
            /\ raised = "ValueError"
            /\ completion_id = None
            /\ created = None
       ELSE /\ phase = "open"
            /\ raised = None
            /\ IF adapter = "grok"
               THEN /\ completion_id = None
                    /\ created = None
               ELSE /\ completion_id = StreamCompletionId(clock)
                    /\ created = StreamCreated(clock)
    /\ consumed = <<>>
    /\ out = <<>>
    /\ response = <<>>
    /\ completion = <<>>
    /\ request = <<>>
    /\ call = <<>>
    /\ live = <<>>
    /\ answer = <<>>
    /\ _model_cache = <<>>
    /\ handlers = [h \in Handlers |-> IdleHandler]
    /\ process = <<>>
    /\ cancel = <<>>

StartedNext ==
    \/ Resumption
    \/ NextAfterEnd

\* the consumer goes on iterating a started generator, and the provider's
\* sequence of events is finite: a generator that can be resumed is resumed
\* (every resumption moves the generator or consumes an event)
ConsumerFairSpec ==
    Started /\ [][StartedNext]_vars /\ WF_<<phase, consumed>>(Resumption)

(***************************************************************************)
(* Validation and routing of create_chat_completion over the listings that *)
(* Google answers: genai.list_models() lists every model of the API that   *)
(* generates content, the Gemma models among the Gemini ones.              *)
(***************************************************************************)
GemmaId == "gemma-3-27b-it"

\* the model ids that callers ask for
AgreementIds ==
    {"claude-3-haiku-20240307", "gemini-1.5-pro", "grok-2-latest", GemmaId}

\* what a provider answers to the gateway's listing: as in GatewayListings,
\* and for Google also the listing of a Gemma model
AgreementListings(a) ==
    GatewayListings(a)
    \cup (IF a = "gemini"
          THEN {[ok |-> TRUE,
                 data |-> <<[name |-> GeminiName(GemmaId),
                             supported_generation_methods |->
                                 {"generateContent", "countTokens"}]>>]}
          ELSE {})

AgreementNext ==
    \/ \E h \in Handlers, id \in AgreementIds, stream \in BOOLEAN :
           Receive(h, id, stream)
    \/ \E h \in Handlers :
           /\ handlers[h].pc = "list_anthropic"
           /\ \E oa \in AgreementListings("anthropic"),
                 og \in AgreementListings("gemini") :
                  AnthropicListed(h, oa, og)
    \/ \E h \in Handlers :
           /\ handlers[h].pc = "list_grok"
           /\ \E ox \in AgreementListings("grok") : GrokListed(h, ox)
    \/ \E h \in Handlers, outcome \in {"ok"} \cup UpstreamErrors :
           CompletionReturns(h, outcome)
    \/ \E h \in Handlers, outcome \in {"ok"} \cup UpstreamErrors :
           StreamRuns(h, outcome)

AgreementSpec == StreamInit /\ [][AgreementNext]_vars

(***************************************************************************)
(* Concurrent create_chat_completion calls over providers whose listings   *)
(* hold one id throughout: the live list of a provider holds the model of  *)
(* its fallback list that callers ask for.                                 *)
(***************************************************************************)
SteadyLiveId(a) ==
    CASE a = "anthropic" -> "claude-3-haiku-20240307"
      [] a = "gemini" -> "gemini-1.5-pro"
      [] a = "grok" -> "grok-2-latest"

\* what a provider answers to the gateway's listing: an authentication
\* failure, or the one model
SteadyListings(a) ==
    {[ok |-> FALSE, error |-> "AuthenticationError"]}
    \cup {[ok |-> TRUE, data |-> <<m>>] :
             m \in {l \in LiveModels(a) :
                       IF a = "gemini"
                       THEN /\ l.name = GeminiName(SteadyLiveId(a))
                            /\ GeneratesContent(l)
                       ELSE l.id = SteadyLiveId(a)}}

ConcurrentNext ==
    \/ \E h \in Handlers, id \in GatewayIds, stream \in BOOLEAN :
           Receive(h, id, stream)
    \/ \E h \in Handlers :
           /\ handlers[h].pc = "list_anthropic"
           /\ \E oa \in SteadyListings("anthropic"),
                 og \in SteadyListings("gemini") : AnthropicListed(h, oa, og)
    \/ \E h \in Handlers :
           /\ handlers[h].pc = "list_grok"
           /\ \E ox \in SteadyListings("grok") : GrokListed(h, ox)
    \/ \E h \in Handlers, outcome \in {"ok"} \cup UpstreamErrors :
           CompletionReturns(h, outcome)
    \/ \E h \in Handlers, outcome \in {"ok"} \cup UpstreamErrors :
           StreamRuns(h, outcome)

ConcurrentSpec == StreamInit /\ [][ConcurrentNext]_vars

(***************************************************************************)
(* Bearer token authentication, auth.py and main.py 31-37.  A str is the   *)
(* sequence of its pieces: the separators ";" and ":", the blank " ", the  *)
(* prefixes "op_wui_" and "Bearer ", and pieces that hold none of them.    *)
(***************************************************************************)
MaxKeys == 2

\* the entries of API_KEYS between the semicolons
KeyEntries ==
    {<<"alice", ":", "op_wui_", "abc">>,
     <<" ", "bob", " ", ":", " ", "op_wui_", "def", " ">>,
     <<"mallory", ":", "op_wui_", "abc">>,
     <<"carol", ":", "sk-", "abc">>,
     <<"dave">>,
     <<":", "op_wui_", "abc">>,
     <<"erin", ":">>,
     <<" ">>,
     <<>>}

RECURSIVE Join(_, _)
\* sep.join(parts)
Join(parts, sep) ==
    IF parts = <<>> THEN <<>>
    ELSE IF Len(parts) = 1 THEN parts[1]
    ELSE parts[1] \o <<sep>> \o Join(Tail(parts), sep)

ApiKeyStrings ==
    {Join(entries, ";") :
        entries \in UNION {[1..n -> KeyEntries] : n \in 0..MaxKeys}}

\* str.find(x) + 1: the position of the first x in s, 0 if there is none
IndexOf(s, x) ==
    IF \E i \in 1..Len(s) : s[i] = x
    THEN CHOOSE i \in 1..Len(s) :
             s[i] = x /\ \A j \in 1..(i - 1) : s[j] # x
    ELSE 0

RECURSIVE Split(_, _)
\* s.split(sep)
Split(s, sep) ==
    LET i == IndexOf(s, sep) IN
    IF i = 0 THEN <<s>>
    ELSE <<SubSeq(s, 1, i - 1)>> \o Split(SubSeq(s, i + 1, Len(s)), sep)

\* s.split(sep, 1), sep in s
SplitOnce(s, sep) ==
    LET i == IndexOf(s, sep) IN
    <<SubSeq(s, 1, i - 1), SubSeq(s, i + 1, Len(s))>>

RECURSIVE LStrip(_)
LStrip(s) == IF s # <<>> /\ Head(s) = " " THEN LStrip(Tail(s)) ELSE s
RECURSIVE RStrip(_)
RStrip(s) ==
    IF s # <<>> /\ s[Len(s)] = " " THEN RStrip(SubSeq(s, 1, Len(s) - 1))
    ELSE s
\* s.strip()
Strip(s) == RStrip(LStrip(s))

\* s.startswith(prefix)
StartsWith(s, prefix) == s # <<>> /\ s[1] = prefix

\* tokens[token] = username
SetItem(tokens, token, username) ==
    [t \in DOMAIN tokens \cup {token} |->
        IF t = token THEN username ELSE tokens[t]]

NoTokens == [t \in {} |-> <<>>]

RECURSIVE ParsePairs(_, _)
\* auth.py 112-134: for pair in pairs
ParsePairs(pairs, tokens) ==
    IF pairs = <<>> THEN tokens
    ELSE LET pair == Strip(Head(pairs)) IN
         IF pair = <<>> \/ IndexOf(pair, ":") = 0
         THEN ParsePairs(Tail(pairs), tokens)
         ELSE LET username == Strip(SplitOnce(pair, ":")[1])
                  token == Strip(SplitOnce(pair, ":")[2])
              IN  IF username = <<>> \/ token = <<>>
                     \/ ~StartsWith(token, "op_wui_")
                  THEN ParsePairs(Tail(pairs), tokens)
                  ELSE ParsePairs(Tail(pairs),
                                  SetItem(tokens, token, username))

\* auth.py 89-136
parse_api_keys(api_keys_string) ==
    IF api_keys_string = <<>> \/ Strip(api_keys_string) = <<>> THEN NoTokens
    ELSE ParsePairs(Split(api_keys_string, ";"), NoTokens)

\* main.py 31-37: the middleware is added when the token map is not empty
AddMiddleware(api_keys) ==
    /\ phase = "idle"
    /\ process = <<>>
    /\ LET valid_tokens == parse_api_keys(api_keys) IN
       process' = <<[pc |-> "started", api_keys |-> api_keys,
                     valid_tokens |-> valid_tokens,
                     middleware |-> DOMAIN valid_tokens # {}]>>
    /\ UNCHANGED <<available, clock, adapter, model, phase, completion_id,
                   created, consumed, out, raised, response, completion,
                   others, _model_cache, handlers, cancel>>

\* the paths and the Authorization headers of the requests
Paths == {"/", "/health", "/v1/models", "/v1/chat/completions"}

AuthorizationValues ==
    {<<"Bearer ", "op_wui_", "abc">>, <<"Bearer ", "op_wui_", "def">>,
     <<"Bearer ", "op_wui_", "zzz">>, <<"Bearer ", "sk-", "abc">>,
     <<"Bearer ", " ", "op_wui_", "abc">>, <<"Bearer ">>,
     <<"bearer ", "op_wui_", "abc">>, <<"Basic ", "op_wui_", "abc">>,
     <<"op_wui_", "abc">>, <<>>}

RequestHeaders ==
    {[h \in {} |-> <<>>]}
    \cup {[h \in {"Authorization"} |-> v] : v \in AuthorizationValues}

\* return await call_next(request)
CallNext(username) == [raised |-> None, detail |-> None, username |-> username]
\* raise HTTPException(status_code=401, detail=...)
Unauthorized(detail) ==
    [raised |-> "HTTPException", detail |-> detail, username |-> <<>>]

\* a dispatch that takes every token of the right format
BearerTokenDispatchAnyToken(valid_tokens, path, headers) ==
    IF path \in {"/health", "/"} THEN CallNext(<<>>)
    ELSE IF "Authorization" \notin DOMAIN headers
            \/ headers.Authorization = <<>>
    THEN Unauthorized("Missing authorization header")
    ELSE IF ~StartsWith(headers.Authorization, "Bearer ")
    THEN Unauthorized("Invalid authorization format")
    ELSE LET token == Tail(headers.Authorization) IN
         IF ~StartsWith(token, "op_wui_")
         THEN Unauthorized("Invalid token format")
         ELSE CallNext(<<token>>)

\* BearerTokenMiddleware.dispatch, auth.py 29-86
BearerTokenDispatch(valid_tokens, path, headers) ==
    IF path \in {"/health", "/"} THEN CallNext(<<>>)
    ELSE IF "Authorization" \notin DOMAIN headers
            \/ headers.Authorization = <<>>
    THEN Unauthorized("Missing authorization header")
    ELSE IF ~StartsWith(headers.Authorization, "Bearer ")
    THEN Unauthorized("Invalid authorization format")
    ELSE LET token == Tail(headers.Authorization) IN
         IF ~StartsWith(token, "op_wui_")
         THEN Unauthorized("Invalid token format")
         ELSE IF token \notin DOMAIN valid_tokens
                 \/ valid_tokens[token] = <<>>
         THEN Unauthorized("Invalid authentication token")
         ELSE CallNext(<<valid_tokens[token]>>)

\* a request arrives: the middleware, if there is one, runs before the route
\* handler of the path
HttpRequest(path, headers) ==
    /\ phase = "idle"
    /\ process # <<>>
    /\ request' = <<[path |-> path, headers |-> headers]>>
    /\ LET r == IF process[1].middleware
                THEN BearerTokenDispatch(process[1].valid_tokens, path,
                                         headers)
                ELSE CallNext(<<>>)
       IN  IF r.raised = None
           THEN /\ call' = <<[handler |-> path, username |-> r.username]>>
                /\ answer' = <<>>
                /\ raised' = None
                /\ phase' = "calling"
           ELSE /\ call' = <<>>
                /\ answer' = <<[status_code |-> 401, detail |-> r.detail]>>
                /\ raised' = "HTTPException"
                /\ phase' = "failed"
    /\ UNCHANGED <<available, clock, adapter, model, completion_id, created,
                   consumed, out, response, completion, live, server>>

AuthNext ==
    \/ \E api_keys \in ApiKeyStrings : AddMiddleware(api_keys)
    \/ \E path \in Paths, headers \in RequestHeaders :
           HttpRequest(path, headers)

AuthSpec == StreamInit /\ [][AuthNext]_vars

TypeOK ==
    /\ phase \in {"idle", "open", "finished", "done", "aborted", "returned",
                 "failed", "calling", "listed", "found", "routed",
                 "cancelled"}
    /\ Len(consumed) <= MaxEvents

(***************************************************************************)
(* Vocabulary of the properties.                                           *)
(***************************************************************************)
IsChunk(item) == item.kind = "chunk"
ChoiceOf(item) == item.data.choices[1]
DeltaOf(item) == ChoiceOf(item).delta
\* a finish_reason left out of the JSON object reads as null
FinishOf(item) ==
    IF "finish_reason" \in DOMAIN ChoiceOf(item)
    THEN ChoiceOf(item).finish_reason ELSE None
HasFinish(item) == IsChunk(item) /\ FinishOf(item) # None
HasContent(item) == IsChunk(item) /\ "content" \in DOMAIN DeltaOf(item)
MetaOf(c) == <<c.id, c.created, c.model>>

FinishIdx == {i \in 1..Len(out) : HasFinish(out[i])}
DoneIdx == {i \in 1..Len(out) : out[i] = SseDone}
Chunks(items) == SelectSeq(items, IsChunk)
IsPrefix(s, t) == Len(s) <= Len(t) /\ \A i \in 1..Len(s) : s[i] = t[i]
Last(s) == s[Len(s)]
Received == consumed' # consumed

IsTextDelta(e) == e.type = "content_block_delta" /\ "text" \in DOMAIN e.delta
IsMessageStop(e) == e.type = "message_stop"
HasChoices(c) == c.choices # <<>>
\* the provider's terminal signal in the events received
Terminal(e) ==
    CASE adapter = "anthropic" -> IsMessageStop(e)
      [] adapter = "grok" -> HasChoices(e) /\ e.choices[1].finish_reason # None
      [] OTHER -> FALSE
\* the events that carry text or the terminal signal
Meaningful(e) ==
    CASE adapter = "anthropic" -> IsTextDelta(e) \/ IsMessageStop(e)
      [] adapter = "grok" -> HasChoices(e)
      [] OTHER -> TRUE
TerminalIdx == {j \in 1..Len(consumed) : Terminal(consumed[j])}
OneTerminalLast ==
    \E j \in 1..Len(consumed) :
        /\ TerminalIdx = {j}
        /\ \A k \in (j + 1)..Len(consumed) : ~Meaningful(consumed[k])

(***************************************************************************)
(* C1 as stated: a stream that ended without error holds exactly one chunk *)
(* with a non-null finish_reason, and that chunk is the second-to-last     *)
(* item, directly before the [DONE] sentinel, whatever the provider sent.  *)
(***************************************************************************)
C1_ExactlyOneFinishChunk ==
    phase = "done" =>
        /\ Len(out) >= 2
        /\ Last(out) = SseDone
        /\ FinishIdx = {Len(out) - 1}

(***************************************************************************)
(* C1 amended: a stream that ended without error ends with [DONE]; Gemini  *)
(* emits exactly one finish-reason chunk, directly before [DONE]; Anthropic*)
(* and Grok emit one finish-reason chunk per terminal event received, so   *)
(* they have the single second-to-last finish-reason chunk exactly when the*)
(* provider sent one terminal event and nothing meaningful after it.       *)
(***************************************************************************)
C1_FinishChunkPerTerminalEvent ==
    phase = "done" =>
        /\ Last(out) = SseDone
        /\ adapter = "gemini" => FinishIdx = {Len(out) - 1}
        /\ adapter # "gemini" =>
              /\ Cardinality(FinishIdx) = Cardinality(TerminalIdx)
              /\ (FinishIdx = {Len(out) - 1}) <=> OneTerminalLast

C1_Witness ==
    /\ phase = "done" /\ adapter = "anthropic"
    /\ Len(out) >= 3
    /\ FinishIdx = {Len(out) - 1}

(***************************************************************************)
(* C2: the content chunks of an Anthropic stream are, in order, exactly    *)
(* the texts of the text-bearing content_block_delta events received; the  *)
(* events [delta A, delta B, message_stop] give A, B, terminal, [DONE].    *)
(***************************************************************************)
EventText(e) == e.delta.text
ContentOf(item) == DeltaOf(item).content
ExampleEvents == <<TextDelta("A"), TextDelta("B"), [type |-> "message_stop"]>>
ExampleChunk(delta, finish_reason) ==
    SseData(ChatCompletionChunk(completion_id, created, model,
                ChatCompletionStreamChoice(0, delta, finish_reason)))

C2_AnthropicTextsInOrder ==
    adapter = "anthropic" =>
        /\ MapSeq(SelectSeq(out, HasContent), ContentOf)
             = MapSeq(SelectSeq(consumed, IsTextDelta), EventText)
        /\ (phase = "done" /\ consumed = ExampleEvents) =>
              out = <<ExampleChunk([role |-> "assistant", content |-> "A"], None),
                      ExampleChunk([role |-> "assistant", content |-> "B"], None),
                      ExampleChunk(EmptyDelta, "stop"),
                      SseDone>>

C2_Witness ==
    adapter = "anthropic" /\ phase = "done" /\ consumed = ExampleEvents

(***************************************************************************)
(* C3: when the provider raises while the stream is consumed, the          *)
(* generator raises too: the exception leaves it in the aborted state, the *)
(* step that raises emits nothing, and nothing is emitted afterwards, so   *)
(* no finish-reason chunk and no [DONE] follows the error.                 *)
(***************************************************************************)
C3_ErrorAbortsStream ==
    [][(raised' # None \/ raised # None) =>
          /\ out' = out
          /\ phase' = "aborted"
          /\ raised' # None]_vars

C3_Witness ==
    /\ phase = "aborted" /\ raised = "APIError"
    /\ adapter = "gemini" /\ Len(out) = 2

(***************************************************************************)
(* C4 as stated: all chunks of one stream carry the same id, created and   *)
(* model, for every adapter and every upstream sequence.                   *)
(***************************************************************************)
ChunkMeta(item) == MetaOf(item.data)

C4_SameIdCreatedModel ==
    \A i, j \in 1..Len(out) :
        (IsChunk(out[i]) /\ IsChunk(out[j])) => ChunkMeta(out[i]) = ChunkMeta(out[j])

(***************************************************************************)
(* C4 amended: the Anthropic and Gemini adapters fix id, created and model *)
(* when the stream starts and repeat them on every chunk; every chunk of   *)
(* the Grok adapter carries the id, created and model of the upstream      *)
(* chunk it was converted from.                                            *)
(***************************************************************************)
C4_MetaFixedOrUpstream ==
    /\ [](adapter \in {"anthropic", "gemini"} =>
            \A i \in 1..Len(out) :
                IsChunk(out[i]) =>
                    ChunkMeta(out[i]) = <<completion_id, created, model>>)
    /\ [](adapter = "grok" =>
            IsPrefix(MapSeq(Chunks(out), ChunkMeta),
                     MapSeq(SelectSeq(consumed, HasChoices), MetaOf)))
    /\ [][phase # "idle" =>
            /\ completion_id' = completion_id
            /\ created' = created
            /\ model' = model]_vars

C4_Witness ==
    /\ adapter = "grok"
    /\ Len(out) = 2
    /\ IsChunk(out[1]) /\ IsChunk(out[2])
    /\ out[1].data.id # out[2].data.id

(***************************************************************************)
(* C5 as stated: every emitted chunk has a non-empty delta.content or is   *)
(* the terminal chunk with a non-null finish_reason.                       *)
(***************************************************************************)
C5_NonEmptyContentOrTerminal ==
    \A i \in 1..Len(out) :
        IsChunk(out[i]) =>
            \/ HasContent(out[i]) /\ ContentOf(out[i]) # ""
            \/ HasFinish(out[i])

(***************************************************************************)
(* C5 amended: every emitted chunk carries a delta.content (the upstream   *)
(* text, forwarded even when it is empty) or has a non-null finish_reason, *)
(* and no chunk is emitted for an event that carries neither: Anthropic    *)
(* events other than a text-bearing content_block_delta and message_stop,  *)
(* and Grok chunks without choices, are consumed silently.  The number of  *)
(* chunks never exceeds, and while the generator has not raised equals,    *)
(* the number of the other events received (plus the final chunk that      *)
(* Gemini adds).                                                           *)
(***************************************************************************)
NumMeaningful == Len(SelectSeq(consumed, Meaningful))
NumSynthesized ==
    IF adapter = "gemini" /\ phase \in {"finished", "done"} THEN 1 ELSE 0

C5_OneChunkPerMeaningfulEvent ==
    /\ \A i \in 1..Len(out) :
          IsChunk(out[i]) => (HasContent(out[i]) \/ HasFinish(out[i]))
    /\ Len(Chunks(out)) <= NumMeaningful + NumSynthesized
    /\ raised \notin {"ValueError", "ValidationError"} =>
          Len(Chunks(out)) = NumMeaningful + NumSynthesized

C5_Witness ==
    /\ adapter = "anthropic"
    /\ Len(consumed) = 3
    /\ Len(out) = 1
    /\ HasContent(out[1]) /\ ContentOf(out[1]) = ""

(***************************************************************************)
(* C6 as stated: every chunk emitted for an event that carries new text    *)
(* has delta = {role: assistant, content: <the text>} and a null           *)
(* finish_reason, for every adapter.                                       *)
(***************************************************************************)
CarriesText(e) ==
    CASE adapter = "anthropic" -> IsTextDelta(e)
      [] adapter = "gemini" -> e.parts # <<>>
      [] adapter = "grok" ->
            HasChoices(e) /\ e.choices[1].delta.content \notin {None, ""}
      [] OTHER -> FALSE
TextOf(e) ==
    CASE adapter = "anthropic" -> e.delta.text
      [] adapter = "gemini" -> e.parts[1]
      [] OTHER -> e.choices[1].delta.content

C6_ContentChunkShape ==
    [][(Received /\ CarriesText(Last(consumed')) /\ out' # out) =>
          /\ DeltaOf(Last(out')) =
                [role |-> "assistant", content |-> TextOf(Last(consumed'))]
          /\ FinishOf(Last(out')) = None]_vars

(***************************************************************************)
(* C6 amended: for every content-delta event the Anthropic and Gemini      *)
(* adapters emit one chunk with delta = {role: assistant, content: <the    *)
(* text>} and a null finish_reason; a chunk emitted by the Grok adapter    *)
(* carries the role and content of the upstream delta and the upstream     *)
(* finish_reason, which need not be null.                                  *)
(***************************************************************************)
C6_ContentChunkShapePerAdapter ==
    [][(Received /\ CarriesText(Last(consumed'))) =>
          LET e == Last(consumed') IN
          /\ adapter \in {"anthropic", "gemini"} =>
                /\ Len(out') = Len(out) + 1
                /\ IsPrefix(out, out')
                /\ DeltaOf(Last(out')) =
                      [role |-> "assistant", content |-> TextOf(e)]
                /\ FinishOf(Last(out')) = None
          /\ (adapter = "grok" /\ out' # out) =>
                /\ Len(out') = Len(out) + 1
                /\ IsPrefix(out, out')
                /\ DeltaOf(Last(out')) =
                      [role |-> e.choices[1].delta.role,
                       content |-> e.choices[1].delta.content]
                /\ FinishOf(Last(out')) = e.choices[1].finish_reason]_vars

C6_Witness ==
    /\ adapter = "grok"
    /\ Len(out) = 1
    /\ HasContent(out[1]) /\ ContentOf(out[1]) = "A"
    /\ FinishOf(out[1]) = "stop"

(***************************************************************************)
(* C7 as stated: the chunk emitted for the provider's terminal event has   *)
(* an empty delta and finish_reason "stop", for every adapter.             *)
(***************************************************************************)
C7_TerminalChunkShape ==
    \A i \in FinishIdx :
        DeltaOf(out[i]) = EmptyDelta /\ FinishOf(out[i]) = "stop"

(***************************************************************************)
(* C7 amended: the Anthropic adapter emits, for every message_stop, and    *)
(* the Gemini adapter, at the end of the provider's sequence, a chunk with *)
(* an empty delta and finish_reason "stop"; a finish-reason chunk of the   *)
(* Grok adapter repeats the finish_reason (stop, length or content_filter) *)
(* and the delta of the upstream chunk it was converted from.              *)
(***************************************************************************)
C7_TerminalChunkShapePerAdapter ==
    /\ adapter \in {"anthropic", "gemini"} =>
          \A i \in FinishIdx :
              DeltaOf(out[i]) = EmptyDelta /\ FinishOf(out[i]) = "stop"
    /\ adapter = "anthropic" =>
          Cardinality(FinishIdx) = Len(SelectSeq(consumed, IsMessageStop))
    /\ adapter = "gemini" =>
          (FinishIdx # {} <=> phase \in {"finished", "done"})
    /\ adapter = "grok" =>
          \A i \in FinishIdx :
              /\ FinishOf(out[i]) \in FinishReasons
              /\ \E j \in 1..Len(consumed) :
                    /\ HasChoices(consumed[j])
                    /\ consumed[j].choices[1].finish_reason = FinishOf(out[i])
                    /\ consumed[j].choices[1].delta = DeltaOf(out[i])

C7_Witness ==
    /\ adapter = "grok"
    /\ \E i \in FinishIdx : FinishOf(out[i]) = "length"

(***************************************************************************)
(* C8 as stated: the [DONE] sentinel is emitted only directly after the    *)
(* finish-reason chunk, once, as the last item.                            *)
(***************************************************************************)
C8_DoneOnlyAfterFinishChunk ==
    \A i \in DoneIdx :
        /\ i = Len(out)
        /\ i > 1 /\ HasFinish(out[i - 1])

(***************************************************************************)
(* C8 amended: the [DONE] sentinel is emitted once, as the last item, when *)
(* the provider's sequence has ended, and nothing is emitted after it; the *)
(* Gemini adapter emits it directly after the finish-reason chunk, the     *)
(* Anthropic and Grok adapters whether or not a finish-reason chunk was    *)
(* emitted.                                                                *)
(***************************************************************************)
C8_DoneOnceLast ==
    /\ [](/\ DoneIdx \subseteq {Len(out)}
          /\ DoneIdx # {} <=> phase = "done"
          /\ adapter = "gemini" =>
                \A i \in DoneIdx : i > 1 /\ HasFinish(out[i - 1]))
    /\ [][phase = "done" => (out' = out /\ phase' = "done")]_vars

C8_Witness ==
    /\ phase = "done" /\ adapter = "anthropic"
    /\ Len(out) = 3
    /\ FinishIdx = {}

(***************************************************************************)
(* C9: every completion that create_completion returns has                 *)
(* usage.total_tokens = usage.prompt_tokens + usage.completion_tokens,     *)
(* whatever the provider reported.                                         *)
(***************************************************************************)
C9_TotalIsSum ==
    phase = "returned" =>
        completion[1].usage.total_tokens =
            completion[1].usage.prompt_tokens
            + completion[1].usage.completion_tokens

(***************************************************************************)
(* C10: when the provider's response carries no usage information,         *)
(* create_completion still returns a completion and its three usage counts *)
(* are zero.                                                               *)
(***************************************************************************)
NoUsageReported ==
    /\ response # <<>>
    /\ \/ adapter = "gemini" /\ response[1].usage_metadata = <<>>
                              /\ response[1].text # <<>>
       \/ adapter = "grok" /\ response[1].usage = <<>>
                            /\ response[1].choices # <<>>
                            /\ ValidChoice(response[1].choices[1].message.role,
                                   response[1].choices[1].message.content,
                                   response[1].choices[1].finish_reason)

C10_ZeroUsageWhenUnreported ==
    NoUsageReported =>
        /\ phase = "returned"
        /\ completion[1].usage = Usage(0, 0, 0)

(***************************************************************************)
(* C11 as stated: every completion that create_completion returns has      *)
(* exactly one choice, its index is 0 and its message role is assistant,   *)
(* whatever candidates and choice index the provider response carries, for *)
(* every adapter.                                                          *)
(***************************************************************************)
C11_OneChoiceIndexZeroAssistant ==
    phase = "returned" =>
        /\ Len(completion) = 1
        /\ Len(completion[1].choices) = 1
        /\ completion[1].choices[1].index = 0
        /\ completion[1].choices[1].message.role = "assistant"

(***************************************************************************)
(* C11 amended: create_completion returns one completion with exactly one  *)
(* choice, whatever number of candidates the provider response carries.    *)
(* The Anthropic and Gemini adapters give it index 0 and role assistant;   *)
(* the Grok adapter gives it the index and the role of the first choice of *)
(* the provider response.                                                  *)
(***************************************************************************)
C11_OneChoicePerAdapter ==
    phase = "returned" =>
        /\ Len(completion) = 1
        /\ Len(completion[1].choices) = 1
        /\ adapter \in {"anthropic", "gemini"} =>
              /\ completion[1].choices[1].index = 0
              /\ completion[1].choices[1].message.role = "assistant"
        /\ adapter = "grok" =>
              /\ completion[1].choices[1].index =
                     response[1].choices[1].index
              /\ completion[1].choices[1].message.role =
                     response[1].choices[1].message.role

C11_Witness ==
    /\ phase = "returned" /\ adapter = "grok"
    /\ Len(response[1].choices) = 2
    /\ response[1].choices[1].index = 1
    /\ completion[1].choices[1].index = 1

(***************************************************************************)
(* C12: for every adapter and every native stop/finish signal of the       *)
(* provider, create_completion succeeds with a finish_reason given by a    *)
(* fixed table: a token-limit signal maps to length, a safety/policy       *)
(* signal maps to content_filter, any other signal (a missing or           *)
(* unrecognized one included) maps to stop; Anthropic end_turn with        *)
(* content "Hi" yields finish_reason stop and content "Hi".                *)
(***************************************************************************)
\* the response is one that create_completion can normalize, its
\* stop/finish signal apart
NormalizableBesidesSignal ==
    /\ response # <<>>
    /\ adapter = "gemini" => response[1].text # <<>>
    /\ adapter = "grok" =>
          /\ response[1].choices # <<>>
          /\ response[1].usage # <<>>
          /\ ValidChoice(response[1].choices[1].message.role,
                         response[1].choices[1].message.content, None)

\* the native signal of the response: <<>> when it carries none
NativeSignal ==
    CASE adapter = "anthropic" ->
           IF response[1].stop_reason = None THEN <<>>
           ELSE <<response[1].stop_reason>>
      [] adapter = "gemini" ->
           IF response[1].candidates = <<>> THEN <<>>
           ELSE <<response[1].candidates[1].finish_reason.value>>
      [] adapter = "grok" ->
           IF response[1].choices[1].finish_reason = None THEN <<>>
           ELSE <<response[1].choices[1].finish_reason>>

\* Anthropic max_tokens, Gemini MAX_TOKENS, Grok length
TokenLimitSignal ==
    CASE adapter = "anthropic" -> NativeSignal = <<"max_tokens">>
      [] adapter = "gemini" -> NativeSignal = <<2>>
      [] adapter = "grok" -> NativeSignal = <<"length">>

\* Anthropic refusal, Gemini SAFETY and RECITATION, Grok content_filter
SafetySignal ==
    CASE adapter = "anthropic" -> NativeSignal = <<"refusal">>
      [] adapter = "gemini" -> NativeSignal \in {<<3>>, <<4>>}
      [] adapter = "grok" -> NativeSignal = <<"content_filter">>

TableFinishReason ==
    IF TokenLimitSignal THEN "length"
    ELSE IF SafetySignal THEN "content_filter"
    ELSE "stop"

C12_FinishReasonTable ==
    NormalizableBesidesSignal =>
        /\ phase = "returned"
        /\ completion[1].choices[1].finish_reason = TableFinishReason
        /\ (/\ adapter = "anthropic"
            /\ response[1].stop_reason = "end_turn"
            /\ response[1].content = <<TextBlock("Hi")>>) =>
               /\ completion[1].choices[1].finish_reason = "stop"
               /\ completion[1].choices[1].message.content = <<"Hi">>

(***************************************************************************)
(* C13 as stated: for every adapter the id of the completion is            *)
(* "chatcmpl-" followed by the provider response id or by a generated one, *)
(* and its created value is the gateway's own current time, never a        *)
(* timestamp that the provider reported.                                   *)
(***************************************************************************)
C13_PrefixedIdGatewayTime ==
    phase = "returned" =>
        /\ completion[1].id[1] = "chatcmpl-"
        /\ completion[1].created = clock \div MsPerSecond
        /\ completion[1].id[2] = IF "id" \in DOMAIN response[1]
                                 THEN response[1].id
                                 ELSE clock \div MsPerSecond

(***************************************************************************)
(* C13 amended: the Anthropic adapter's completion id is "chatcmpl-"       *)
(* followed by the provider response id, the Gemini adapter's is           *)
(* "chatcmpl-" followed by the gateway's current time in seconds, and both *)
(* set created to the gateway's current time; the Grok adapter returns the *)
(* id and the created value of the provider response unchanged.            *)
(***************************************************************************)
C13_IdAndCreatedPerAdapter ==
    phase = "returned" =>
        /\ adapter = "anthropic" =>
              /\ completion[1].id = <<"chatcmpl-", response[1].id>>
              /\ completion[1].created = clock \div MsPerSecond
        /\ adapter = "gemini" =>
              /\ completion[1].id = <<"chatcmpl-", clock \div MsPerSecond>>
              /\ completion[1].created = clock \div MsPerSecond
        /\ adapter = "grok" =>
              /\ completion[1].id = response[1].id
              /\ completion[1].created = response[1].created

C13_Witness ==
    /\ phase = "returned" /\ adapter = "grok"
    /\ clock = ClockStart + 1
    /\ completion[1].id = <<"xai-", 1>>
    /\ completion[1].created = 7
    /\ completion[1].created # clock \div MsPerSecond

(***************************************************************************)
(* Vocabulary of the request builders' properties.                         *)
(***************************************************************************)
IsSystem(msg) == msg.role = "system"
NonSystem(msg) == msg.role # "system"
SystemMessages == SelectSeq(request[1].messages, IsSystem)
Streaming ==
    \/ call[1].method = "messages.stream"
    \/ "stream" \in DOMAIN call[1] /\ call[1].stream
    \/ /\ "kwargs" \in DOMAIN call[1]
       /\ "stream" \in DOMAIN call[1].kwargs
       /\ call[1].kwargs.stream

\* the system instruction of the provider call: <<>> when it has none
SystemSent ==
    CASE adapter = "anthropic" ->
           IF "system" \in DOMAIN call[1].kwargs
           THEN <<call[1].kwargs.system>> ELSE <<>>
      [] adapter = "gemini" -> call[1].system_instruction
      [] adapter = "grok" ->
           IF "system" \in DOMAIN call[1].kwargs
           THEN <<call[1].kwargs.system>> ELSE <<>>

\* the conversation turns of the provider call
TurnsSent ==
    CASE adapter = "anthropic" -> call[1].kwargs.messages
      [] adapter = "gemini" -> call[1].contents
      [] adapter = "grok" -> call[1].kwargs.messages

\* the token limit of the provider call: <<>> when it has none
MaxTokensSent ==
    CASE adapter = "anthropic" -> <<call[1].kwargs.max_tokens>>
      [] adapter = "gemini" -> call[1].generation_config.max_output_tokens
      [] adapter = "grok" ->
           IF "max_tokens" \in DOMAIN call[1].kwargs
           THEN <<call[1].kwargs.max_tokens>> ELSE <<>>

\* the stop value of the provider call: <<>> when it has none
StopSent ==
    CASE adapter = "anthropic" ->
           IF "stop_sequences" \in DOMAIN call[1].kwargs
           THEN <<call[1].kwargs.stop_sequences>> ELSE <<>>
      [] adapter = "gemini" -> call[1].generation_config.stop_sequences
      [] adapter = "grok" ->
           IF "stop" \in DOMAIN call[1].kwargs
           THEN <<call[1].kwargs.stop>> ELSE <<>>

(***************************************************************************)
(* C14: when the message list of a request holds several system messages,  *)
(* every adapter that extracts a system instruction (Anthropic, Gemini)    *)
(* honours exactly one of them, the first in conversation order.           *)
(***************************************************************************)
C14_FirstSystemMessageHonoured ==
    (/\ phase = "calling"
     /\ adapter \in {"anthropic", "gemini"}
     /\ Len(SystemMessages) >= 2) =>
        SystemSent = <<SystemMessages[1].content>>

(***************************************************************************)
(* C15 as stated: for any message list and any adapter, no system message  *)
(* is among the conversation turns sent to the provider, and a system      *)
(* message that is present is forwarded through the provider's dedicated   *)
(* system-instruction parameter.                                           *)
(***************************************************************************)
C15_SystemOutOfBand ==
    phase = "calling" =>
        /\ \A i \in 1..Len(TurnsSent) : TurnsSent[i].role # "system"
        /\ SystemMessages # <<>> =>
              /\ SystemSent # <<>>
              /\ \E i \in 1..Len(SystemMessages) :
                     SystemSent[1] = SystemMessages[i].content

(***************************************************************************)
(* C15 amended: the Anthropic and Gemini adapters send no system message   *)
(* among the conversation turns.  Anthropic forwards the system message it *)
(* keeps (the last one) as the system parameter when its content is not    *)
(* empty, and sends no system parameter otherwise; Gemini passes the       *)
(* content of the first system message as system_instruction, and None     *)
(* when there is none.  Grok has no system parameter: it sends every       *)
(* message, system ones included, as a turn in its place.                  *)
(***************************************************************************)
C15_SystemPerAdapter ==
    phase = "calling" =>
        /\ adapter \in {"anthropic", "gemini"} =>
              \A i \in 1..Len(TurnsSent) : TurnsSent[i].role # "system"
        /\ adapter = "anthropic" =>
              SystemSent =
                  IF /\ SystemMessages # <<>>
                     /\ SystemMessages[Len(SystemMessages)].content # ""
                  THEN <<SystemMessages[Len(SystemMessages)].content>>
                  ELSE <<>>
        /\ adapter = "gemini" =>
              SystemSent =
                  IF SystemMessages # <<>>
                  THEN <<SystemMessages[1].content>> ELSE <<>>
        /\ adapter = "grok" =>
              /\ SystemSent = <<>>
              /\ Len(TurnsSent) = Len(request[1].messages)
              /\ \A i \in 1..Len(TurnsSent) :
                     /\ TurnsSent[i].role = request[1].messages[i].role
                     /\ TurnsSent[i].content = request[1].messages[i].content

C15_Witness ==
    /\ phase = "calling" /\ adapter = "grok"
    /\ Len(request[1].messages) = 2
    /\ request[1].messages[1].role = "system"
    /\ TurnsSent[1] = [role |-> "system", content |-> "be brief"]
    /\ TurnsSent[2].role = "user"

(***************************************************************************)
(* C16: the message converter (Anthropic, Gemini) outputs exactly one      *)
(* provider-native turn per non-system message, in the original order and  *)
(* with the content unchanged, the role renamed per provider (assistant to *)
(* model for Gemini): no turn is reordered, dropped or duplicated, for any *)
(* interleaving of system, user and assistant messages.                    *)
(***************************************************************************)
AnthropicTurn(msg) == [role |-> msg.role, content |-> msg.content]
GeminiTurn(msg) ==
    [role |-> IF msg.role = "assistant" THEN "model" ELSE msg.role,
     parts |-> <<[text |-> msg.content]>>]

C16_OneTurnPerNonSystemMessage ==
    phase = "calling" =>
        /\ adapter = "anthropic" =>
              TurnsSent = MapSeq(SelectSeq(request[1].messages, NonSystem),
                                 AnthropicTurn)
        /\ adapter = "gemini" =>
              TurnsSent = MapSeq(SelectSeq(request[1].messages, NonSystem),
                                 GeminiTurn)

C16_Witness ==
    /\ phase = "calling" /\ adapter = "gemini"
    /\ Len(request[1].messages) = 3
    /\ request[1].messages[1].role = "assistant"
    /\ request[1].messages[2].role = "system"
    /\ request[1].messages[3].role = "user"
    /\ TurnsSent = <<[role |-> "model", parts |-> <<[text |-> "Hi"]>>],
                     [role |-> "user", parts |-> <<[text |-> "Hello"]>>]>>

(***************************************************************************)
(* C17 as stated: in the streaming and the non-streaming builder of every  *)
(* adapter, max_tokens reaches the provider call unchanged when the        *)
(* request sets it, and the default 4096 takes its place when the request  *)
(* omits it.                                                               *)
(***************************************************************************)
C17_MaxTokensOrDefault ==
    phase = "calling" =>
        MaxTokensSent = <<IF request[1].max_tokens # <<>>
                          THEN request[1].max_tokens[1]
                          ELSE DefaultMaxTokens>>

(***************************************************************************)
(* C17 amended: in both builders of every adapter a max_tokens that the    *)
(* request sets reaches the provider call unchanged.  When the request     *)
(* omits it, the Anthropic adapter sends 4096, the Gemini adapter passes   *)
(* None as max_output_tokens and the Grok adapter sends no max_tokens.     *)
(***************************************************************************)
C17_MaxTokensPerAdapter ==
    phase = "calling" =>
        /\ request[1].max_tokens # <<>> =>
              MaxTokensSent = request[1].max_tokens
        /\ request[1].max_tokens = <<>> =>
              /\ adapter = "anthropic" =>
                    MaxTokensSent = <<DefaultMaxTokens>>
              /\ adapter \in {"gemini", "grok"} => MaxTokensSent = <<>>

C17_Witness ==
    /\ phase = "calling" /\ adapter = "gemini" /\ Streaming
    /\ request[1].max_tokens = <<>>
    /\ call[1].generation_config.max_output_tokens = <<>>

(***************************************************************************)
(* C18 as stated: in both builders, a stop value given as a single string  *)
(* always reaches the provider call as a one-element sequence holding that *)
(* string, and a stop given as a sequence reaches it with its elements and *)
(* their order unchanged.                                                  *)
(***************************************************************************)
C18_StopAlwaysSequence ==
    (phase = "calling" /\ request[1].stop # <<>>) =>
        StopSent = <<IF request[1].stop[1].type = "str"
                     THEN List(<<request[1].stop[1].value>>)
                     ELSE request[1].stop[1]>>

(***************************************************************************)
(* C18 amended: in both builders of the Anthropic and Gemini adapters a    *)
(* non-empty stop string reaches the provider call as a one-element        *)
(* sequence holding it, and a non-empty stop sequence reaches it           *)
(* unchanged.  The Grok adapter forwards a non-empty stop as given, a      *)
(* string staying a string.  An empty string or sequence is not forwarded  *)
(* by Anthropic and Grok; Gemini forwards the empty string as a            *)
(* one-element sequence and the empty sequence as None.                    *)
(***************************************************************************)
C18_StopPerAdapter ==
    phase = "calling" =>
        LET stop == request[1].stop
            given == stop # <<>> /\ Truthy(stop[1])
        IN  /\ (adapter \in {"anthropic", "gemini"} /\ given) =>
                  /\ StopSent # <<>>
                  /\ StopSent[1].type = "list"
                  /\ StopSent[1].value =
                         IF stop[1].type = "str" THEN <<stop[1].value>>
                         ELSE stop[1].value
            /\ (adapter = "grok" /\ given) => StopSent = stop
            /\ (adapter \in {"anthropic", "grok"} /\ ~given) =>
                  StopSent = <<>>
            /\ (adapter = "gemini" /\ ~given) =>
                  IF stop # <<>> /\ stop[1].type = "str"
                  THEN /\ StopSent # <<>>
                       /\ StopSent[1].type = "list"
                       /\ StopSent[1].value = <<"">>
                  ELSE StopSent = <<>>

C18_Witness ==
    /\ phase = "calling" /\ adapter = "grok" /\ Streaming
    /\ request[1].stop = <<Str("END")>>
    /\ call[1].kwargs.stop.type = "str"
    /\ call[1].kwargs.stop.value = "END"

(***************************************************************************)
(* Vocabulary of the registry's properties.                                *)
(***************************************************************************)
Configured == adapter = "anthropic" \/ available[adapter]
ListCalled == request # <<>> /\ request[1].method = "list_models"
GetCalled == request # <<>> /\ request[1].method = "get_model"
LiveFailed == live # <<>> /\ ~live[1].ok
LiveSucceeded == live # <<>> /\ live[1].ok
FallbackIds ==
    CASE adapter = "anthropic" -> AnthropicModelIds
      [] adapter = "gemini" -> GeminiModelIds
      [] adapter = "grok" -> GrokModelIds
FallbackLength ==
    CASE adapter = "anthropic" -> 9
      [] adapter = "gemini" -> 3
      [] adapter = "grok" -> 6
Owner ==
    CASE adapter = "anthropic" -> "anthropic"
      [] adapter = "gemini" -> "google"
      [] adapter = "grok" -> "xai"
InFallback(id) == \E i \in 1..Len(FallbackIds) : FallbackIds[i] = id

(***************************************************************************)
(* C19: for each provider, list_models never raises, and when the live     *)
(* model listing fails for any reason (network error, auth error,          *)
(* unsupported API surface) it returns that provider's static fallback     *)
(* list, which is not empty and of fixed length: 9 for Anthropic, 3 for    *)
(* Gemini, 6 for Grok.                                                     *)
(***************************************************************************)
C19_FallbackListOnLiveFailure ==
    ListCalled =>
        /\ phase = "listed"
        /\ raised = None
        /\ LiveFailed =>
              /\ Len(answer[1]) = FallbackLength
              /\ Len(answer[1]) = Len(FallbackIds)
              /\ \A i \in 1..Len(answer[1]) :
                     /\ answer[1][i].id = FallbackIds[i]
                     /\ answer[1][i].owned_by = Owner

C19_Witness ==
    /\ ListCalled /\ adapter = "grok" /\ phase = "listed"
    /\ LiveFailed /\ live[1].error = "AuthenticationError"
    /\ Len(answer[1]) = 6
    /\ answer[1][1].id = "grok-2-latest"

(***************************************************************************)
(* C20: for each provider with its credential configured, get_model(id)    *)
(* returns the live ModelInfo when the live lookup succeeds; when the live *)
(* lookup fails it returns the static fallback entry with that id if there *)
(* is one; it raises not-found only after both the live lookup and the     *)
(* linear search of the fallback list have failed (grok-2-latest resolves  *)
(* through the fallback list when the key is invalid).                     *)
(***************************************************************************)
LiveModelId ==
    IF adapter = "gemini" THEN live[1].model.name[2] ELSE live[1].model.id

C20_LiveThenFallbackThenNotFound ==
    (GetCalled /\ Configured) =>
        /\ LiveSucceeded =>
              /\ phase = "found"
              /\ answer[1].id = LiveModelId
              /\ answer[1].owned_by = Owner
        /\ (LiveFailed /\ InFallback(model)) =>
              /\ phase = "found"
              /\ answer[1] = ModelInfo(model, clock \div MsPerSecond, Owner)
        /\ phase = "failed" => (LiveFailed /\ ~InFallback(model))
        /\ (/\ adapter = "grok" /\ model = "grok-2-latest"
            /\ LiveFailed /\ live[1].error = "AuthenticationError") =>
               /\ phase = "found"
               /\ answer[1].id = "grok-2-latest"

(***************************************************************************)
(* C21: the provider of a request is a function of its model id alone,     *)
(* with a fixed precedence: an id containing "gemini" in any letter case   *)
(* goes to Gemini, otherwise an id containing "grok" goes to Grok, and     *)
(* every other id goes to Anthropic; an id containing both goes to Gemini. *)
(***************************************************************************)
NamesGemini(model_id) ==
    \E i \in 1..Len(model_id) : model_id[i] \in {"gemini", "Gemini"}
NamesGrok(model_id) ==
    \E i \in 1..Len(model_id) : model_id[i] \in {"grok", "GROK"}

C21_RoutePrecedence ==
    phase = "routed" =>
        /\ NamesGemini(model) => adapter = "gemini"
        /\ (~NamesGemini(model) /\ NamesGrok(model)) => adapter = "grok"
        /\ (~NamesGemini(model) /\ ~NamesGrok(model)) =>
              adapter = "anthropic"

C21_Witness ==
    /\ phase = "routed"
    /\ model = <<"GROK", "-x", "Gemini">>
    /\ adapter = "gemini"

(***************************************************************************)
(* Vocabulary of the gateway properties.                                   *)
(***************************************************************************)
NoListing == [anthropic |-> 0, gemini |-> 0, grok |-> 0]
Listings(n) == [anthropic |-> n, gemini |-> n, grok |-> n]
\* the call h is past model validation
Validated(h) == handlers[h].pc \in {"calling", "streaming", "done", "aborted"}
\* the call h is building the availability set
Rebuilding(h) == handlers[h].pc \in {"list_anthropic", "list_grok"}
\* the call h was answered with the HTTP status s
Answered(h, s) == handlers[h].pc = "done" /\ handlers[h].status = s
\* the step receives the call h
Receives(h) == handlers[h].pc = "idle" /\ handlers'[h].pc # "idle"
\* the rebuilds that the call h has started
RebuildsOf(h) ==
    IF handlers[h].populated THEN 1 ELSE IF handlers[h].forced THEN 2 ELSE 1

\* C22, the step of reception: an unset cache is built by the call that
\* finds it unset; a populated cache that holds the id is used without any
\* listing call and left as it is; a populated cache that lacks the id is
\* rebuilt
C22_Reception ==
    \A h \in Handlers :
        Receives(h) =>
            IF _model_cache = <<>>
            THEN /\ handlers'[h].pc = "list_anthropic"
                 /\ ~handlers'[h].forced
                 /\ handlers'[h].listed.anthropic = 1
            ELSE IF handlers'[h].model \in _model_cache[1]
            THEN /\ handlers'[h].listed = NoListing
                 /\ handlers'[h].pc \in {"calling", "streaming", "done"}
                 /\ _model_cache' = _model_cache
            ELSE /\ handlers'[h].pc = "list_anthropic"
                 /\ handlers'[h].forced
                 /\ handlers'[h].listed.anthropic = 1

\* C22, the states: no cache before the first call; a call that found the
\* cache populated and missed has listed each provider exactly once when
\* validation is over, whether the id was found or the call was rejected;
\* the rejection comes only after the forced rebuild
C22_RebuildCounts ==
    /\ (\A h \in Handlers : handlers[h].pc = "idle") => _model_cache = <<>>
    /\ \A h \in Handlers :
          /\ \A a \in Adapters : handlers[h].listed[a] <= RebuildsOf(h)
          /\ Validated(h) /\ handlers[h].forced =>
                 handlers[h].listed = Listings(RebuildsOf(h))
          /\ Validated(h) /\ ~handlers[h].forced /\ ~handlers[h].populated =>
                 handlers[h].listed = Listings(1)
          /\ Answered(h, 400) =>
                 /\ handlers[h].forced
                 /\ handlers[h].listed = Listings(RebuildsOf(h))
                 /\ handlers[h].model \notin handlers[h].available_models[1]
          /\ Validated(h) /\ ~Answered(h, 400) =>
                 handlers[h].model \in handlers[h].available_models[1]

\* C22: the availability cache is built lazily on first use and memoized; a
\* validation hit on the populated cache makes no listing call; a validation
\* miss triggers exactly one forced rebuild, each provider listed exactly
\* once more, and the id still absent after it the call fails as not found
\* without any further rebuild
C22_LazyMemoizedCache == [][C22_Reception]_vars /\ []C22_RebuildCounts

\* a call found the cache that another call had built, missed, listed each
\* provider once and was rejected
C22_Witness ==
    \E h, k \in Handlers :
        /\ Answered(h, 400) /\ handlers[h].populated
        /\ handlers[h].listed = Listings(1)
        /\ Validated(k) /\ ~handlers[k].populated
        /\ handlers[k].listed = Listings(1)

\* the sets of ids that the client of adapter a can list: the provider's
\* live model, or the hardcoded list
ListableIds(a) ==
    CASE a = "anthropic" ->
             {{"claude-3-opus-latest"},
              {AnthropicModelIds[i] : i \in 1..Len(AnthropicModelIds)}}
      [] a = "gemini" ->
             {{"gemini-2.0-flash"},
              {GeminiModelIds[i] : i \in 1..Len(GeminiModelIds)}}
      [] a = "grok" ->
             {{"grok-3"}, {GrokModelIds[i] : i \in 1..Len(GrokModelIds)}}
\* what the client of adapter a can contribute to one rebuild
Contributions(a) ==
    IF a # "anthropic" /\ ~available[a] THEN {{}} ELSE ListableIds(a)
\* a view of the availability set is complete when it is the union of what
\* the three clients list in one rebuild
Complete(view) ==
    view # <<>> =>
        \E am \in Contributions("anthropic"), gm \in Contributions("gemini"),
           xm \in Contributions("grok") : view[1] = am \cup gm \cup xm

C23_UnsetIsRebuilt ==
    \A h \in Handlers :
        Receives(h) /\ _model_cache = <<>> =>
            handlers'[h].pc = "list_anthropic" /\ _model_cache' = <<>>

Unflagged == [request[1] EXCEPT !.stream = FALSE]
\* create_completion or create_stream_completion has been called
BuilderCalled == request # <<>> /\ "stream" \in DOMAIN request[1]

\* C24 as the spec states it: create_completion fails when the stream flag
\* of the request is true, so that such a request never reaches a
\* non-streaming provider call
C24_StreamFlagRejected ==
    BuilderCalled /\ phase = "calling" /\ request[1].stream => Streaming

\* C24, amended: create_completion does not read the stream flag: before the
\* provider call it fails only for the missing key of its provider, and the
\* non-streaming call it makes for a request whose flag is true is the call
\* it makes for the same request with the flag false
C24_StreamFlagIgnored ==
    BuilderCalled =>
        /\ phase = "failed" => adapter # "anthropic" /\ ~available[adapter]
        /\ phase = "calling" /\ ~Streaming =>
               /\ call[1] = ProviderCall(adapter, Unflagged, FALSE)
               /\ completion_id = None

\* the Grok create_completion has made its call, stream False in the kwargs,
\* for a request whose stream flag is true
C24_Witness ==
    /\ BuilderCalled /\ phase = "calling" /\ adapter = "grok"
    /\ request[1].stream /\ ~call[1].kwargs.stream

\* the providers whose credential the environment lacks
Env == process[1].env
CredentialAbsent(a) ==
    CASE a = "anthropic" -> Env.ANTHROPIC_API_KEY = <<>>
      [] a = "gemini" -> Env.GOOGLE_API_KEY = <<>>
      [] a = "grok" -> Env.GROK_API_KEY = <<>>
OnlyAbsent(a) ==
    CredentialAbsent(a) /\ \A b \in Adapters \ {a} : ~CredentialAbsent(b)

\* C25: the absence of any single provider's credential (Anthropic, Google
\* or Grok) is never a startup failure: the process does not end in an
\* exception, and the client of that provider, once constructed, is marked
\* unavailable
C25_MissingCredentialTolerated ==
    \A a \in Adapters :
        process # <<>> /\ OnlyAbsent(a) =>
            /\ process[1].pc # "crashed"
            /\ a # "anthropic" /\ a \in process[1].clients => ~available[a]

\* the ids of the models of the provider of adapter a
ProviderIds(a) == LiveIds(a) \cup UNION ListableIds(a)
\* GET /v1/models has been answered
AggregateListed == request # <<>> /\ request[1].method = "GET"
Unconfigured == {a \in {"gemini", "grok"} : ~available[a]}

\* C26: a provider whose credential is absent contributes no model id to the
\* list of GET /v1/models nor to the availability cache nor to the set that
\* a call validates against, its list_models gives the empty list and its
\* get_model raises the not-found ValueError, and no call is dispatched to
\* its client, whatever model id is requested
C26_UnconfiguredProviderExcluded ==
    \A a \in Unconfigured :
        /\ _model_cache # <<>> => _model_cache[1] \cap ProviderIds(a) = {}
        /\ \A h \in Handlers :
               /\ handlers[h].client # a
               /\ handlers[h].available_models # <<>> =>
                      handlers[h].available_models[1] \cap ProviderIds(a) = {}
               /\ handlers[h].model \in ProviderIds(a) /\ Validated(h) =>
                      Answered(h, 400) /\ handlers[h].calls = 0
        /\ AggregateListed /\ phase = "listed" =>
               \A i \in 1..Len(answer[1].data) :
                   answer[1].data[i].id \notin ProviderIds(a)
        /\ ListCalled /\ adapter = a => phase = "listed" /\ answer[1] = <<>>
        /\ GetCalled /\ adapter = a =>
               phase = "failed" /\ raised = "ValueError" /\ answer = <<>>

\* without the Grok key, a stream request and a completion request for
\* grok-2-latest have both been rejected after the rebuild, no client chosen
C26_Witness ==
    /\ "grok" \in Unconfigured
    /\ \E h, k \in Handlers :
           /\ handlers[h].model = "grok-2-latest" /\ handlers[h].stream
           /\ handlers[k].model = "grok-2-latest" /\ ~handlers[k].stream
           /\ Answered(h, 400) /\ Answered(k, 400)
           /\ handlers[h].client = None /\ handlers[k].client = None

RECURSIVE IdsOf(_)
\* the ids of a list of models, in its order
IdsOf(models) ==
    IF models = <<>> THEN <<>>
    ELSE <<Head(models).id>> \o IdsOf(Tail(models))
RECURSIVE GeminiIdsOf(_)
\* the ids of the models of a Gemini listing that generate content
GeminiIdsOf(data) ==
    IF data = <<>> THEN <<>>
    ELSE (IF GeneratesContent(Head(data))
          THEN <<StripModelsPrefix(Head(data).name)>> ELSE <<>>)
         \o GeminiIdsOf(Tail(data))
\* the hardcoded ids of adapter a
HardcodedIds(a) ==
    CASE a = "anthropic" -> AnthropicModelIds
      [] a = "gemini" -> GeminiModelIds
      [] a = "grok" -> GrokModelIds
\* the ids of the live-or-fallback list of adapter a, for the listing
\* outcomes of the request under way
LiveOrFallbackIds(a) ==
    IF a \in Unconfigured THEN <<>>
    ELSE IF ~live[1][a].ok THEN HardcodedIds(a)
    ELSE IF a = "gemini" THEN GeminiIdsOf(live[1][a].data)
    ELSE IdsOf(live[1][a].data)

\* C27: for every combination of per-provider listing outcomes, GET
\* /v1/models succeeds and returns exactly the concatenation, in the order
\* Anthropic, Gemini, Grok, of each provider's live-or-fallback list,
\* duplicates kept; an upstream listing failure is never surfaced
C27_AggregateIsConcatenation ==
    AggregateListed =>
        /\ phase = "listed"
        /\ raised = None
        /\ answer[1].status = 200
        /\ IdsOf(answer[1].data) =
               LiveOrFallbackIds("anthropic") \o LiveOrFallbackIds("gemini")
                   \o LiveOrFallbackIds("grok")

\* the Anthropic and the Grok listing have failed and Gemini has listed one
\* model twice: the answer holds the 9 hardcoded Anthropic models, the
\* Gemini model twice and the 6 hardcoded Grok models
C27_Witness ==
    /\ AggregateListed /\ Unconfigured = {}
    /\ ~live[1].anthropic.ok /\ ~live[1].grok.ok
    /\ live[1].gemini.ok /\ Len(live[1].gemini.data) = 2
    /\ Len(answer[1].data) = 17
    /\ answer[1].data[10] = answer[1].data[11]
    /\ answer[1].data[10].id = "gemini-2.0-flash"
    /\ answer[1].data[12].id = "grok-2-latest"

\* the id of the call h is absent from the set that it validated against
Absent(h) ==
    /\ handlers[h].available_models # <<>>
    /\ handlers[h].model \notin handlers[h].available_models[1]
\* a provider call has been made, or is about to be made, for the call h
Dispatched(h) ==
    \/ handlers[h].client # None
    \/ handlers[h].calls > 0
    \/ handlers[h].pc \in {"calling", "streaming"}

\* C28: a chat-completion request whose model id is absent from the
\* availability set after the forced rebuild is rejected with 400, the
\* upstream failures being answered with 500, and no provider completion or
\* stream call is made for it, whether stream is true or false
C28_UnknownModelRejected ==
    \A h \in Handlers :
        /\ Validated(h) /\ Absent(h) =>
               /\ handlers[h].forced
               /\ Answered(h, 400)
               /\ handlers[h].detail = "Model not found"
               /\ ~Dispatched(h)
        /\ handlers[h].status = 400 => Absent(h) /\ ~Dispatched(h)
        /\ handlers[h].status = 500 =>
               /\ ~Absent(h)
               /\ handlers[h].client # None
               /\ handlers[h].detail \in UpstreamErrors \cup {"ValueError"}
        /\ Dispatched(h) => ~Absent(h)

\* a stream request and a completion request for an id that no provider
\* lists have both been answered with 400 and no provider call
C28_Witness ==
    \E h, k \in Handlers :
        /\ handlers[h].model = "nonexistent-model" /\ handlers[h].stream
        /\ handlers[k].model = "nonexistent-model" /\ ~handlers[k].stream
        /\ Answered(h, 400) /\ Answered(k, 400)
        /\ handlers[h].calls = 0 /\ handlers[k].calls = 0

\* the provider call of the call h, or the missing key of its client, has
\* raised
UpstreamFailed(h) ==
    \/ handlers[h].pc = "aborted"
    \/ handlers[h].pc = "done" /\ handlers[h].status = 500

\* C29: an upstream transport or authentication failure, or the
\* provider-unavailable failure, of a completion is surfaced to the caller
\* of create_chat_completion as the response 500 that carries the provider's
\* message, for the requests with stream true as well as for those with
\* stream false, and the upstream call is not made again
C29_UpstreamFailureIs500 ==
    \A h \in Handlers :
        /\ UpstreamFailed(h) =>
               /\ handlers[h].status = 500
               /\ handlers[h].detail \in UpstreamErrors \cup {"ValueError"}
        /\ handlers[h].calls <= 1

\* the hardcoded ids of adapter a, as a set
HardcodedSet(a) == {HardcodedIds(a)[i] : i \in 1..Len(HardcodedIds(a))}
\* the set that the call h validated against holds the fallback list of
\* adapter a: the live listing of a failed in the rebuild that produced it
ValidatedOnFallback(h, a) ==
    /\ a \notin Unconfigured
    /\ Validated(h)
    /\ HardcodedSet(a) \subseteq handlers[h].available_models[1]

\* C30: the credential of a provider present and its live listing failed, a
\* chat-completion request for a model of its static fallback list passes
\* validation and is dispatched to the client of that provider: the caller
\* never sees the unknown-model failure, and the failure of a completion is
\* the upstream failure
C30_FallbackModelDispatched ==
    \A h \in Handlers : \A a \in Adapters :
        ValidatedOnFallback(h, a) /\ handlers[h].model \in HardcodedSet(a) =>
            /\ handlers[h].client = a
            /\ handlers[h].status # 400
            /\ handlers[h].pc # "idle"
            /\ handlers[h].status = 500 =>
                   handlers[h].detail \in UpstreamErrors
            /\ handlers[h].pc \in {"done", "aborted"} => handlers[h].calls = 1

\* the Grok key is set and the Grok listing has failed: the completion
\* request for grok-2-latest went to the Grok client and was answered with
\* the authentication failure of the provider
C30_Witness ==
    \E h \in Handlers :
        /\ ValidatedOnFallback(h, "grok")
        /\ "grok-3" \notin handlers[h].available_models[1]
        /\ handlers[h].model = "grok-2-latest" /\ ~handlers[h].stream
        /\ handlers[h].client = "grok"
        /\ Answered(h, 500) /\ handlers[h].detail = "AuthenticationError"

\* the consumer was cancelled while the generator waited for the provider
CancelledWaiting == phase = "cancelled" /\ cancel # <<>> /\ cancel[1].at = "await"

Ended == phase \in {"done", "aborted", "cancelled"}

\* a started stream ends
C33_Ends == (phase \in {"open", "finished"}) ~> Ended

\* a generator that returned yielded the sentinel last; one that was left by an
\* exception recorded it
C33_EndedHow ==
    /\ phase = "done" => out # <<>> /\ out[Len(out)] = SseDone
    /\ phase \in {"aborted", "cancelled"} => raised # None

\* an ended generator stays ended, yields nothing and consumes nothing
C33_StaysEnded ==
    Ended => phase' = phase /\ out' = out /\ consumed' = consumed
                 /\ raised' = raised

\* C33: create_stream_completion is finite and single-pass: for every finite
\* sequence of provider events the emitted stream eventually ends, with the
\* [DONE] sentinel or with an abort, and once ended it yields no further item
\* and cannot be restarted
C33_FiniteSinglePass ==
    C33_Ends /\ []C33_EndedHow /\ [][C33_StaysEnded]_vars

\* a stream over provider events has ended with the sentinel and was resumed
\* once more
C33_Witness ==
    /\ phase = "done"
    /\ consumed # <<>>
    /\ out[Len(out)] = SseDone
    /\ answer = <<"StopAsyncIteration">>

\* GET /v1/models/{model_id} has been answered
ModelGot ==
    request # <<>> /\ request[1].method = "GET /v1/models/model_id"
\* the id is in the fallback list of provider a
InFallbackOf(a, id) ==
    \E i \in 1..Len(HardcodedIds(a)) : HardcodedIds(a)[i] = id
\* provider a resolves the id of the request: it is available, and its live
\* lookup succeeded or its fallback list holds the id
Resolves(a) ==
    /\ a \notin Unconfigured
    /\ live[1][a].ok \/ InFallbackOf(a, model)
\* provider a is the first in the order Anthropic, Gemini, Grok to resolve
FirstResolving(a) ==
    /\ Resolves(a)
    /\ a = "gemini" => ~Resolves("anthropic")
    /\ a = "grok" => ~Resolves("anthropic") /\ ~Resolves("gemini")
OwnerOf(a) ==
    CASE a = "anthropic" -> "anthropic"
      [] a = "gemini" -> "google"
      [] a = "grok" -> "xai"

\* C32: get_model(id) of the gateway consults the providers in the order
\* Anthropic, Gemini, Grok and returns the ModelInfo of the first provider
\* that resolves the id, live or fallback; it answers 404 exactly when every
\* provider fails to resolve the id, an unavailable provider counting as a
\* failure that lets the chain continue
C32_FirstResolvingProvider ==
    ModelGot =>
        /\ \A a \in Adapters :
               FirstResolving(a) =>
                   /\ phase = "found"
                   /\ answer[1].status = 200
                   /\ answer[1].data[1].id = model
                   /\ answer[1].data[1].owned_by = OwnerOf(a)
        /\ answer[1].status = 404 <=> \A a \in Adapters : ~Resolves(a)
        /\ answer[1].status \in {200, 404}

\* the ids that the listing of provider a, live or fallback, contributes to
\* the availability cache; no id is contributed by two providers
ContributedBy(a) ==
    HardcodedSet(a)
    \cup (CASE a = "anthropic" -> {"claude-3-opus-latest"}
            [] a = "gemini" -> {"gemini-2.0-flash", GemmaId}
            [] a = "grok" -> {"grok-3"})

\* C34: validation and routing agree: every model id admitted by validation
\* is dispatched to the adapter of a provider whose live-or-fallback listing
\* contributed that id to the availability cache, and an id listed only by
\* one provider is never sent to the adapter of another
C34_ValidationAndRoutingAgree ==
    \A h \in Handlers :
        Dispatched(h) =>
            /\ handlers[h].model \in handlers[h].available_models[1]
            /\ \E a \in Adapters : handlers[h].model \in ContributedBy(a)
            /\ \A a \in Adapters :
                   handlers[h].model \in ContributedBy(a) =>
                       handlers[h].client = a

\* the ids that the listings of the available providers hold throughout
SteadyIds == {SteadyLiveId(a) : a \in Adapters \ Unconfigured}
\* what the listing of provider a contributes to one rebuild
SteadyContributions(a) ==
    IF a \in Unconfigured THEN {{}}
    ELSE {{SteadyLiveId(a)}, HardcodedSet(a)}
\* the unions of one rebuild
SteadyUnions ==
    {am \cup gm \cup xm : am \in SteadyContributions("anthropic"),
                          gm \in SteadyContributions("gemini"),
                          xm \in SteadyContributions("grok")}
\* get_available_models has returned to the call h
Returned(h) ==
    /\ handlers[h].pc # "idle"
    /\ handlers[h].populated \/ handlers[h].forced \/ ~Rebuilding(h)

\* C35: under any interleaving of concurrent chat-completion requests, other
\* requests clearing and rebuilding the cache at any await point, a request
\* whose model id is in the providers' listings throughout is never rejected
\* as an unknown model, and get_available_models never returns an unset or
\* partially unioned set to its caller
C35_ListedNeverRejected ==
    \A h \in Handlers :
        /\ handlers[h].model \in SteadyIds =>
               /\ handlers[h].status # 400
               /\ Validated(h) => Dispatched(h)
        /\ Returned(h) =>
               /\ handlers[h].available_models # <<>>
               /\ handlers[h].available_models[1] \in SteadyUnions

\* two calls arrived while the cache was unset and rebuilt it side by side:
\* the one for an unknown id cleared the cache and rebuilt it once more and
\* was rejected, the one for a listed id was dispatched
C35_Witness ==
    \E h, k \in Handlers :
        /\ h # k
        /\ ~handlers[h].populated /\ ~handlers[k].populated
        /\ handlers[h].model = "nonexistent-model"
        /\ handlers[h].forced /\ Answered(h, 400)
        /\ handlers[h].listed = Listings(2)
        /\ handlers[k].model = "gemini-1.5-pro"
        /\ Dispatched(k) /\ handlers[k].client = "gemini"
        /\ handlers[k].listed = Listings(1)

\* the keys role and content that the upstream delta carries with a value
\* that is not empty
CarriedDelta(delta) ==
    [k \in {j \in {"role", "content"} \cap DOMAIN delta :
               delta[j] \notin {None, ""}} |-> delta[k]]

\* C36: in the Grok stream every upstream chunk with a non-empty choices
\* list yields exactly one canonical chunk, without error, whose delta holds
\* only those of the keys role and content that the upstream delta carries
\* with a non-empty value, and whose finish_reason is the upstream one; an
\* upstream chunk with an empty choices list yields nothing
C36_GrokChunkPerUpstreamChunk ==
    [][(Received /\ adapter = "grok") =>
          LET chunk == Last(consumed') IN
          IF HasChoices(chunk)
          THEN /\ Len(out') = Len(out) + 1
               /\ IsPrefix(out, out')
               /\ phase' = "open" /\ raised' = None
               /\ DeltaOf(Last(out')) = CarriedDelta(chunk.choices[1].delta)
               /\ FinishOf(Last(out')) = chunk.choices[1].finish_reason
          ELSE out' = out /\ phase' = phase /\ raised' = raised]_vars

\* a request has been taken in by the application
Requested == request # <<>> /\ "headers" \in DOMAIN request[1]
\* at least one valid token is configured
TokensConfigured == process # <<>> /\ DOMAIN process[1].valid_tokens # {}
\* the route handler of the request was invoked
HandlerInvoked == call # <<>>
\* the Authorization header of the request is "Bearer " followed by a token
\* that starts with op_wui_ and is a key of the token map
BearerOfKnownToken ==
    /\ "Authorization" \in DOMAIN request[1].headers
    /\ LET header == request[1].headers.Authorization IN
       /\ Len(header) >= 2
       /\ header[1] = "Bearer "
       /\ header[2] = "op_wui_"
       /\ Tail(header) \in DOMAIN process[1].valid_tokens

\* C37: at least one valid token configured, no request to a path other
\* than "/" and "/health" reaches a route handler unless its Authorization
\* header is "Bearer " followed by a token that starts with op_wui_ and is a
\* key of the token map of parse_api_keys; every other such request is
\* rejected as unauthorized, its handler not invoked
C37_OnlyBearerOfKnownToken ==
    (Requested /\ TokensConfigured /\ request[1].path \notin {"/", "/health"})
        => /\ HandlerInvoked => BearerOfKnownToken
           /\ ~BearerOfKnownToken =>
                  /\ ~HandlerInvoked
                  /\ raised = "HTTPException"
                  /\ answer[1].status_code = 401

\* two users are configured; a request with a token of the right format
\* that is no key of the token map was rejected
C37_Witness ==
    /\ Requested /\ TokensConfigured
    /\ request[1].path = "/v1/models"
    /\ request[1].headers = [h \in {"Authorization"} |->
                                <<"Bearer ", "op_wui_", "zzz">>]
    /\ ~HandlerInvoked
    /\ answer[1].status_code = 401
    /\ answer[1].detail = "Invalid authentication token"
    /\ DOMAIN process[1].valid_tokens =
           {<<"op_wui_", "abc">>, <<"op_wui_", "def">>}
====
